---- MODULE Spec2Model ----
(***************************************************************************)
(* Acquisition core of the AVR-Multislope front end: the measurement       *)
(* status machine driven by the ADC result-ready and window-boundary       *)
(* interrupt handlers, the 24-bit negative-pulse counter, the SCPI trigger *)
(* session and the measurement ring buffer filled by the control loop.     *)
(*                                                                         *)
(* Interrupt handlers run to completion (AVR clears the global interrupt   *)
(* flag on entry), so each handler is one action.  The control loop's      *)
(* capture_measurement_if_ready reads and clears status inside one         *)
(* ATOMIC_BLOCK and afterwards touches only data no handler writes, so it  *)
(* is one action as well.                                                  *)
(***************************************************************************)
EXTENDS Integers, Sequences, FiniteSets, TLC

-----------------------------------------------------------------------------
(* Bounds of the model *)

\* log2 of the ring size explored (the firmware instantiates 2^10 = 1024)
RingBits == 2
\* largest SAMPLE:COUNT argument explored (the firmware accepts 1..1022)
MaxSamples == 2
\* window-boundary interrupts raised in one run of Spec
MaxWindows == 2
\* window-boundary interrupts raised in one run of SpecCnt, SpecSes, SpecBuf,
\* SpecAcq
MaxCntWindows == 2
MaxSesWindows == 3
MaxBufWindows == 3
MaxAcqWindows == 2
\* window boundaries raised in one run of SpecWin
MaxWinBounds == 4
\* boundaries raised, and input events counted between two boundaries, while
\* handle_window is taken one register write at a time
MaxRstBounds == 2
MaxRstInputs == 2
\* RTC periodic interrupts in one run
MaxTicks == 1
\* pulse bursts counted by TCB1 between two resets of the negative counter
MaxPulseSteps == 2
\* pulse bursts between two resets in SpecCnt: enough for the low word of
\* TCB1 to wrap more than three times
MaxCntPulseSteps == 7
\* largest FETCH count explored (the firmware accepts 1..1022)
MaxRead == 2

\* ADC readings delivered with a result-ready interrupt
Samples == {1, 3}
\* pulse bursts: a single pulse, and a burst that wraps the 16-bit low word
PulseBatches == {1, 65535}
\* values of the byte of the local Word32 that get_count never writes
UninitByte == {0, 255}
\* window lengths selectable with SENSE:WINDOW:PLC explored here
WindowLengths == {5}
\* the ADC reading where its value plays no role
AcqSample == 1

-----------------------------------------------------------------------------
(* Status (status.h) *)

CLEAN == "CLEAN"
PREV_CHARGE == "PREV_CHARGE"
NEGATIVE_COUNTS == "NEGATIVE_COUNTS"
RESULT_AVAIL == "RESULT_AVAIL"
Status == {CLEAN, PREV_CHARGE, NEGATIVE_COUNTS, RESULT_AVAIL}

VARIABLES
    \* struct Globals
    status, previous_charge, charge_difference, negative_counts,
    \* NegativeCounter: TCB1 (hardware low word, enable bit, overflow flag), msb
    TCB1_CNT, TCB1_ENABLE, TCB1_OVF, msb,
    \* WindowCounter: compare/reload fields, cascade stages, enable, CAPT flag
    tcb3_cmp, tcb3_reload, period_m, TCB2_CNT, TCB3_CNT, TCB3_ENABLE, TCB3_CAPT,
    \* scpi.cpp
    g_selected_window, g_samples_per_trigger, g_samples_remaining,
    g_trigger_armed, g_has_last_measurement, g_last_measurement,
    \* Ring<Measurement, uint16_t, 1024> meas_buffer
    data, m_head, m_tail,
    \* Ticker
    m_ticksL, m_ticksH, m_secs, m_millis,
    \* history: interrupt events since status was last set to CLEAN
    h_events,
    \* history: pulses counted since the previous boundary handler or reset
    h_pulses,
    \* history: bursts since the last reset of the negative counter
    h_pulse_steps,
    \* history: boundary interrupts raised
    h_windows,
    \* history: sample count at the last trigger, records put since then
    h_armed_count, h_delivered,
    \* history: put_overwrite_no_atomic dropped an element of meas_buffer
    h_overwrote,
    \* history: clamp_measurement_buffer discarded an element of meas_buffer
    h_clamped,
    \* history: input events counted by TCB2 since the last boundary or reset,
    \* boundaries raised since the last WindowCounter::reset
    h_inputs, h_bounds,
    \* history: pulses counted since the last NegativeCounter::reset
    h_count,
    \* history: hand-offs to meas_buffer since WindowCounter::isr last ran
    h_handoffs,
    \* history: results taken by the consumer (status read as RESULT_AVAIL and
    \* cleared) since WindowCounter::isr last ran
    h_takes,
    \* history: the Measurement captured last, as a sequence of at most one
    h_captured,
    \* ByteStream: the last reply line written by a SCPI handler
    stream,
    \* main loop: its position inside handle_window when the handler is taken
    \* one register write at a time
    window_pc,
    \* one call of pack_q0_32: its arguments, its return value, and whether
    \* the call has returned
    pack_args, pack_result, pack_done,
    \* history of Ring::put and Ring::get on meas_buffer: the elements a first-in
    \* first-out queue of ring_size - 1 places holds, the number of put() calls,
    \* and the last call with what get() returned and what the queue gives
    h_fifo, h_puts, h_got,
    \* counters.h: the initial value 0 - N of the modulo-N counter and N, the
    \* TCB3 overflow flag, the low word TCB0 of the positive counter with its
    \* enable bit, and what the TCB3 handler leaves for the main loop
    modN_init_lo, modN_init_hi, modN_period, TCB3_OVF, TCB0_CNT, TCB0_ENABLE,
    window_positive, window_ready,
    \* history: events counted by TCB2 since the counter was last loaded, the
    \* windows completed, and the events taken one at a time in this window
    h_mod_events, h_mod_windows, h_mod_singles,
    \* one caller of read_positive(): its position, its locals msb1, lsw, msb2
    \* and the value it returned last
    read_pc, msb1, lsw, msb2, read_value,
    \* history: the positive counter at the call of read_positive(), a wrap of
    \* TCB0 since msb1 was read, the calls that returned, the events counted
    \* one at a time
    h_read_start, h_read_wrapped, h_reads, h_pos_events,
    \* LineReceiver: the bytes its ByteStream holds, its members, and what
    \* poll() returned last
    m_stream, m_line, m_line_length, m_has_line, m_drop_until_eol,
    m_overflow_count, poll_result,
    \* history: the bytes read_byte() has handed over, and the lines handed
    \* to the caller by a poll() that completed them
    h_line_read, h_lines,
    \* capture_measurement_if_ready taken in two steps: its position and its
    \* local `value`
    capture_pc, capture_value,
    \* the Measurement in the last reply of MEAS:LAST?
    reply_measurement

globalVars == <<status, previous_charge, charge_difference, negative_counts>>
negVars == <<TCB1_CNT, TCB1_ENABLE, TCB1_OVF, msb>>
winCfgVars == <<tcb3_cmp, tcb3_reload, period_m, g_selected_window>>
winHwVars == <<TCB2_CNT, TCB3_CNT, TCB3_ENABLE, TCB3_CAPT>>
trigVars == <<g_samples_per_trigger, g_samples_remaining, g_trigger_armed>>
lastVars == <<g_has_last_measurement, g_last_measurement>>
ringVars == <<data, m_head, m_tail>>
tickVars == <<m_ticksL, m_ticksH, m_secs, m_millis>>
histVars == <<h_events, h_pulses, h_pulse_steps, h_windows,
              h_armed_count, h_delivered, h_overwrote, h_clamped,
              h_inputs, h_bounds, h_count, h_handoffs,
              h_takes, h_captured>>

callVars == <<pack_args, pack_result, pack_done, h_fifo, h_puts, h_got>>
modVars == <<modN_init_lo, modN_init_hi, modN_period, TCB3_OVF, TCB0_CNT,
             TCB0_ENABLE, window_positive, window_ready,
             h_mod_events, h_mod_windows, h_mod_singles>>
replyVars == <<reply_measurement>>
capVars == <<capture_pc, capture_value>>
lineVars == <<m_stream, m_line, m_line_length, m_has_line, m_drop_until_eol,
              m_overflow_count, poll_result, h_line_read, h_lines>>
readVars == <<read_pc, msb1, lsw, msb2, read_value,
              h_read_start, h_read_wrapped, h_reads, h_pos_events>>

vars == <<globalVars, negVars, winCfgVars, winHwVars, trigVars, lastVars,
          ringVars, tickVars, histVars, stream, window_pc, callVars, replyVars,
          capVars, lineVars, readVars, modVars>>

-----------------------------------------------------------------------------
(* Fixed-width conversions *)

ToInt16(x) == ((x + 32768) % 65536) - 32768
ToUint16(x) == x % 65536

\* uint32_t as [h, l], the two 16-bit halves (high, low)
U32(n) == [h |-> n \div 65536, l |-> n % 65536]
U32Inc(x) ==
    IF x.l = 65535 THEN [h |-> (x.h + 1) % 65536, l |-> 0]
    ELSE [h |-> x.h, l |-> x.l + 1]
U32Less(a, b) == a.h < b.h \/ (a.h = b.h /\ a.l < b.l)

-----------------------------------------------------------------------------
(* uint32_t and uint64_t arithmetic of pack_q0_32 (arithmetic.h).  A value is
   the sequence of its 16-bit words, least significant first: 2 words for
   uint32_t, 4 words for uint64_t.  Every operator gives its result modulo
   65536^n, as the C operator does on an n-word unsigned type. *)

\* the product of two 16-bit values as [h, l]
Mul16(x, y) ==
    LET p1 == x * (y \div 256)
        p0 == x * (y % 256)
        low == p0 + (p1 % 256) * 256
    IN [h |-> p1 \div 256 + low \div 65536, l |-> low % 65536]

\* the words of a uint32_t [h, l], and back
Words(x) == <<x.l, x.h>>
FromWords(w) == [h |-> w[2], l |-> w[1]]

Word(a, i) == IF i <= Len(a) THEN a[i] ELSE 0
\* conversion to an n-word type: zero extension or truncation
Cast(a, n) == [i \in 1..n |-> Word(a, i)]

\* the carry into word i of a + b: some lower word overflows and every word
\* between propagates the carry
AddCarry(a, b, i) ==
    IF \E j \in 1..(i - 1) :
           /\ Word(a, j) + Word(b, j) > 65535
           /\ \A k \in (j + 1)..(i - 1) : Word(a, k) + Word(b, k) = 65535
    THEN 1 ELSE 0
\* a + b
WordsAdd(a, b, n) ==
    [i \in 1..n |-> (Word(a, i) + Word(b, i) + AddCarry(a, b, i)) % 65536]

\* the borrow out of the words below word i of a - b
SubBorrow(a, b, i) ==
    IF \E j \in 1..(i - 1) :
           /\ Word(a, j) < Word(b, j)
           /\ \A k \in (j + 1)..(i - 1) : Word(a, k) = Word(b, k)
    THEN 1 ELSE 0
\* a - b
WordsSub(a, b, n) ==
    [i \in 1..n |->
        (Word(a, i) - Word(b, i) - SubBorrow(a, b, i) + 65536) % 65536]

\* a * m for one word m: the low words of the products of the words, plus
\* their high words one word up
WordsMulSmall(a, m, n) ==
    WordsAdd([i \in 1..n |-> Mul16(Word(a, i), m).l],
             [i \in 1..n |-> IF i = 1 THEN 0 ELSE Mul16(Word(a, i - 1), m).h],
             n)

\* a * 65536^k
WordsUp(a, k, n) == [i \in 1..n |-> IF i <= k THEN 0 ELSE Word(a, i - k)]
\* a * b for b of up to 3 words
WordsMul(a, b, n) ==
    WordsAdd(WordsAdd(WordsMulSmall(a, Word(b, 1), n),
                      WordsUp(WordsMulSmall(a, Word(b, 2), n), 1, n), n),
             WordsUp(WordsMulSmall(a, Word(b, 3), n), 2, n), n)

\* a <= b
WordsLeq(a, b) ==
    LET n == IF Len(a) > Len(b) THEN Len(a) ELSE Len(b)
    IN \/ \A i \in 1..n : Word(a, i) = Word(b, i)
       \/ \E i \in 1..n :
              /\ Word(a, i) < Word(b, i)
              /\ \A k \in (i + 1)..n : Word(a, k) = Word(b, k)

\* a / 2
WordsHalf(a) ==
    [i \in 1..Len(a) |-> a[i] \div 2 + (Word(a, i + 1) % 2) * 32768]

\* Values of up to 40 bits as [h, l] with l below 65536 and h of any size:
\* order, difference, and the product by a number up to 256
WideLeq(a, b) == a.h < b.h \/ (a.h = b.h /\ a.l <= b.l)
WideSub(a, b) ==
    [h |-> a.h - b.h - (IF a.l < b.l THEN 1 ELSE 0), l |-> (a.l - b.l) % 65536]
WideMulSmall(a, m) ==
    [h |-> a.h * m + (a.l * m) \div 65536, l |-> (a.l * m) % 65536]
\* a * 256 + byte
WideShift(a, byte) ==
    [h |-> a.h * 256 + a.l \div 256, l |-> ((a.l % 256) * 256) + byte]

\* byte i of a, byte 0 the least significant
WordsByte(a, i) == (a[i \div 2 + 1] \div 256 ^ (i % 2)) % 256

\* the d of `range` with d * b <= x < (d + step) * b
QuotientIn(range, step, b, x) ==
    CHOOSE d \in range :
        /\ WideLeq(WideMulSmall(b, d), x)
        /\ ~WideLeq(WideMulSmall(b, d + step), x)

\* one step of the long division of a by b in base 256: from the remainder
\* `rem` and the quotient `q` of the bytes above byte i, those of the bytes
\* from byte i up; the quotient is kept modulo 2^32.  The quotient byte is
\* found as its high and then its low hexadecimal digit.
DivideStep(a, b, i, rem, q) ==
    LET shifted == WideShift(rem, WordsByte(a, i))
        high == QuotientIn({16 * d : d \in 0..15}, 16, b, shifted)
        digit == QuotientIn(high..(high + 15), 1, b, shifted)
        next == WideShift(q, digit)
    IN [rem |-> WideSub(shifted, WideMulSmall(b, digit)),
        q |-> [next EXCEPT !.h = @ % 65536]]

\* long division of the bytes i-1 .. 0 of a by b; each step is evaluated
\* before the next one starts
RECURSIVE DivideFrom(_, _, _, _, _)
DivideFrom(a, b, i, rem, q) ==
    IF i = 0 THEN q
    ELSE CHOOSE quotient \in
             {DivideFrom(a, b, i - 1, step.rem, step.q) :
                 step \in {DivideStep(a, b, i - 1, rem, q)}} : TRUE
\* (uint32_t)(a / b) for a uint64_t a and a uint32_t b # 0
Divide(a, b) ==
    DivideFrom(a, b, 2 * Len(a), [h |-> 0, l |-> 0], [h |-> 0, l |-> 0])

\* variant of pack_q0_32: the quotient is truncated, denom / 2 is not added
pack_q0_32_trunc(I, K, J, D) ==
    LET denom == WordsMulSmall(Words(J), D, 2)
        numer == WordsAdd(WordsMulSmall(Words(I), D, 4), <<K>>, 4)
        num_scaled == WordsUp(numer, 2, 4)
    IN IF WordsLeq(denom, numer)
       THEN [h |-> 65535, l |-> 65535]
       ELSE Divide(num_scaled, FromWords(denom))

\* variant of pack_q0_32: the quotient is rounded up
pack_q0_32_ceil(I, K, J, D) ==
    LET denom == WordsMulSmall(Words(J), D, 2)
        numer == WordsAdd(WordsMulSmall(Words(I), D, 4), <<K>>, 4)
        num_scaled == WordsAdd(WordsUp(numer, 2, 4),
                               WordsSub(denom, <<1>>, 2), 4)
    IN IF WordsLeq(denom, numer)
       THEN [h |-> 65535, l |-> 65535]
       ELSE Divide(num_scaled, FromWords(denom))

\* variant of pack_q0_32: the residual K is left out of numer
pack_q0_32_no_K(I, K, J, D) ==
    LET denom == WordsMulSmall(Words(J), D, 2)
        numer == WordsMulSmall(Words(I), D, 4)
        num_scaled == WordsAdd(WordsUp(numer, 2, 4), WordsHalf(denom), 4)
    IN IF WordsLeq(denom, numer)
       THEN [h |-> 65535, l |-> 65535]
       ELSE Divide(num_scaled, FromWords(denom))

\* variant of pack_q0_32: numer is computed in 32 bits and then widened
pack_q0_32_narrow(I, K, J, D) ==
    LET denom == WordsMulSmall(Words(J), D, 2)
        numer == WordsAdd(WordsMulSmall(Words(I), D, 2), <<K>>, 2)
        num_scaled == WordsAdd(WordsUp(numer, 2, 4), WordsHalf(denom), 4)
    IN IF WordsLeq(denom, numer)
       THEN [h |-> 65535, l |-> 65535]
       ELSE Divide(num_scaled, FromWords(denom))

\* variant of pack_q0_32: the comparison is strict, and a division by a zero
\* denom yields 0
pack_q0_32_strict(I, K, J, D) ==
    LET denom == WordsMulSmall(Words(J), D, 2)
        numer == WordsAdd(WordsMulSmall(Words(I), D, 4), <<K>>, 4)
        num_scaled == WordsAdd(WordsUp(numer, 2, 4), WordsHalf(denom), 4)
    IN IF WordsLeq(denom, numer) /\ numer # Cast(denom, 4)
       THEN [h |-> 65535, l |-> 65535]
       ELSE IF denom = <<0, 0>> THEN [h |-> 0, l |-> 0]
       ELSE Divide(num_scaled, FromWords(denom))

\* variant of pack_q0_32: saturation only for numer > denom, or denom = 0
pack_q0_32_gt(I, K, J, D) ==
    LET denom == WordsMulSmall(Words(J), D, 2)
        numer == WordsAdd(WordsMulSmall(Words(I), D, 4), <<K>>, 4)
        num_scaled == WordsAdd(WordsUp(numer, 2, 4), WordsHalf(denom), 4)
    IN IF /\ WordsLeq(denom, numer)
          /\ numer # Cast(denom, 4) \/ denom = <<0, 0>>
       THEN [h |-> 65535, l |-> 65535]
       ELSE Divide(num_scaled, FromWords(denom))

\* pack_q0_32(I, K, J, D): I and J as [h, l], K and D as numbers below 65536;
\* the result as [h, l]
pack_q0_32(I, K, J, D) ==
    LET denom == WordsMulSmall(Words(J), D, 2)
        numer == WordsAdd(WordsMulSmall(Words(I), D, 4), <<K>>, 4)
        num_scaled == WordsAdd(WordsUp(numer, 2, 4), WordsHalf(denom), 4)
    IN IF WordsLeq(denom, numer)
       THEN [h |-> 65535, l |-> 65535]
       ELSE Divide(num_scaled, FromWords(denom))

-----------------------------------------------------------------------------
(* Ring<T, S, ring_size> (ring.hpp); a ring is [data, head, tail] *)

\* ring_size is a power of two, so "& (ring_size - 1)" is "% ring_size"
ring_size == 2 ^ RingBits

\* the producer's limit: two below ring_size (1022 for ring_size 1024)
SCPI_BUFFER_LIMIT == ring_size - 2

advance_no_atomic(value) == (value + 1) % ring_size

size_no_atomic(r) == (r.head - r.tail) % ring_size

get_no_atomic(r) ==
    IF size_no_atomic(r) = 0
    THEN [ok |-> FALSE, value |-> r.data[r.tail], ring |-> r]
    ELSE [ok |-> TRUE, value |-> r.data[r.tail],
          ring |-> [r EXCEPT !.tail = advance_no_atomic(r.tail)]]

\* variant of put_overwrite_no_atomic: the full test is made before the head
\* is advanced
put_overwrite_no_atomic_test_first(r, c) ==
    LET full == r.head = r.tail
    IN [ring |-> [data |-> [r.data EXCEPT ![r.head] = c],
                  head |-> advance_no_atomic(r.head),
                  tail |-> IF full THEN advance_no_atomic(r.tail) ELSE r.tail],
        overwrote |-> full]

put_overwrite_no_atomic(r, c) ==
    LET h == advance_no_atomic(r.head)
        full == h = r.tail
    IN [ring |-> [data |-> [r.data EXCEPT ![r.head] = c],
                  head |-> h,
                  tail |-> IF full THEN advance_no_atomic(r.tail) ELSE r.tail],
        overwrote |-> full]

meas_buffer == [data |-> data, head |-> m_head, tail |-> m_tail]

\* the elements a ring holds, oldest first
RECURSIVE RingContents(_)
RingContents(r) ==
    IF size_no_atomic(r) = 0 THEN <<>>
    ELSE <<r.data[r.tail]>> \o RingContents(get_no_atomic(r).ring)

-----------------------------------------------------------------------------
(* NegativeCounter (negative_counter.hpp) *)

\* Word32 count: words[0] = TCB1.CNT, bytes[2] = msb, bytes[3] never written
\* read as int32_t: the top byte is the sign byte of the two's complement value
get_count(b3) ==
    TCB1_CNT + msb * 65536 + (IF b3 >= 128 THEN b3 - 256 ELSE b3) * 16777216

\* hardware: TCB1 counts a burst of n gated pulses; OVF is raised on wraparound.
\* The overflow handler is served long before the low word can wrap again.
Pulse(n) ==
    /\ TCB1_ENABLE
    /\ TCB1_CNT + n >= 65536 => ~TCB1_OVF
    /\ TCB1_CNT' = (TCB1_CNT + n) % 65536
    /\ TCB1_OVF' = (TCB1_OVF \/ TCB1_CNT + n >= 65536)
    /\ h_pulses' = h_pulses + n
    /\ h_count' = h_count + n
    /\ h_pulse_steps' = h_pulse_steps + 1
    /\ UNCHANGED <<callVars, replyVars, capVars, lineVars, readVars, modVars,
                   window_pc, h_inputs, h_bounds, stream, globalVars,
                   TCB1_ENABLE, msb, winCfgVars, winHwVars, trigVars,
                   lastVars, ringVars, tickVars, h_events, h_windows,
                   h_armed_count, h_delivered, h_overwrote, h_clamped,
                   h_handoffs, h_takes, h_captured>>

\* variant of NegativeCounter_isr: the overflow flag is not acknowledged
NegativeCounter_isr_no_ack ==
    /\ TCB1_OVF
    /\ msb' = (msb + 1) % 256
    /\ UNCHANGED <<callVars, replyVars, capVars, lineVars, readVars, modVars,
                   window_pc, stream, globalVars, TCB1_CNT, TCB1_ENABLE,
                   TCB1_OVF, winCfgVars, winHwVars, trigVars, lastVars,
                   ringVars, tickVars, histVars>>

\* ISR(TCB1_INT_vect) -> NegativeCounter::isr
NegativeCounter_isr ==
    /\ TCB1_OVF
    /\ TCB1_OVF' = FALSE
    /\ msb' = (msb + 1) % 256
    /\ UNCHANGED <<callVars, replyVars, capVars, lineVars, readVars, modVars,
                   window_pc, stream, globalVars, TCB1_CNT, TCB1_ENABLE,
                   winCfgVars, winHwVars, trigVars, lastVars, ringVars,
                   tickVars, histVars>>

-----------------------------------------------------------------------------
(* WindowCounter (window_counter.hpp, window_counter.cpp) *)

GridFrequency_FREQ_50HZ == 30
WindowLength_PLC_1 == 250

tcb2_cmp == GridFrequency_FREQ_50HZ - 1
tcb2_reload == tcb2_cmp - 1

\* History of the interrupt events since status was last set to CLEAN by the
\* consumer, a reset or construction.  It is kept while it is a prefix of
\* <<adc, win, adc>> or equal to <<adc, adc>>; every other history is MoreEvents.
MoreEvents == <<[ev |-> "more", reading |-> 0]>>
Kinds(h) == [i \in 1..Len(h) |-> h[i].ev]
Record(h, e) ==
    LET k == Kinds(Append(h, e))
    IN IF h # MoreEvents /\ k \in {<<"adc">>, <<"adc", "win">>, <<"adc", "adc">>,
                                   <<"adc", "win", "adc">>}
       THEN Append(h, e) ELSE MoreEvents

\* hardware, periodic interrupt mode: a TCB counts from BOTTOM to CCMP, raises
\* CAPT when CNT reaches CCMP and restarts from BOTTOM on the next count
TCB_count(cnt, ccmp) == IF cnt = ccmp THEN 0 ELSE (cnt + 1) % 65536

\* hardware: one input event is counted by TCB2; the CAPT event of TCB2 is
\* counted by TCB3, whose CAPT is the window boundary
InputEvent ==
    /\ TCB3_ENABLE
    /\ LET cnt2 == TCB_count(TCB2_CNT, tcb2_cmp)
           capt2 == cnt2 = tcb2_cmp
           cnt3 == IF capt2 THEN TCB_count(TCB3_CNT, tcb3_cmp) ELSE TCB3_CNT
           capt3 == capt2 /\ cnt3 = tcb3_cmp
       IN /\ TCB2_CNT' = cnt2
          /\ TCB3_CNT' = cnt3
          /\ TCB3_CAPT' = (TCB3_CAPT \/ capt3)
          /\ h_inputs' = IF capt3 THEN 0 ELSE h_inputs + 1
          /\ h_bounds' = IF capt3 THEN h_bounds + 1 ELSE h_bounds
          /\ h_windows' = IF capt3 THEN h_windows + 1 ELSE h_windows
    /\ UNCHANGED <<callVars, replyVars, capVars, lineVars, readVars, modVars,
                   window_pc, h_count, stream, globalVars, negVars,
                   winCfgVars, TCB3_ENABLE, trigVars, lastVars, ringVars,
                   tickVars, h_events, h_pulses, h_pulse_steps, h_armed_count,
                   h_delivered, h_overwrote, h_clamped, h_handoffs, h_takes,
                   h_captured>>

\* hardware: the input events up to the next boundary, taken as one step.
\* The handler is served before the next window ends.
WindowEnd ==
    /\ TCB3_ENABLE
    /\ ~TCB3_CAPT
    /\ TCB3_CAPT' = TRUE
    /\ TCB2_CNT' = tcb2_cmp
    /\ TCB3_CNT' = tcb3_cmp
    /\ h_windows' = h_windows + 1
    /\ h_inputs' = 0
    /\ h_bounds' = h_bounds + 1
    /\ UNCHANGED <<callVars, replyVars, capVars, lineVars, readVars, modVars,
                   window_pc, h_count, stream, globalVars, negVars,
                   winCfgVars, TCB3_ENABLE, trigVars, lastVars, ringVars,
                   tickVars, h_events, h_pulses, h_pulse_steps, h_armed_count,
                   h_delivered, h_overwrote, h_clamped, h_handoffs, h_takes,
                   h_captured>>

\* ISR(TCB3_INT_vect) -> WindowCounter::isr
WindowCounter_isr ==
    /\ TCB3_CAPT
    /\ TCB3_CAPT' = FALSE
    /\ previous_charge' = charge_difference
    /\ charge_difference' = ToInt16(get_count(0))
    /\ \E b3 \in UninitByte : negative_counts' = get_count(b3)
    /\ status' = NEGATIVE_COUNTS
    /\ h_events' = Record(h_events, [ev |-> "win", reading |-> 0])
    /\ h_pulses' = 0
    /\ h_handoffs' = 0
    /\ h_takes' = 0
    /\ h_captured' = h_captured
    /\ UNCHANGED <<callVars, replyVars, capVars, lineVars, readVars, modVars,
                   window_pc, h_count, h_inputs, h_bounds, stream, negVars,
                   winCfgVars, TCB2_CNT, TCB3_CNT, TCB3_ENABLE, trigVars,
                   lastVars, ringVars, tickVars, h_pulse_steps, h_windows,
                   h_armed_count, h_delivered, h_overwrote, h_clamped>>

\* variant of main_loop_runs: the main loop goes on while an interrupt waits
main_loop_runs_always == TRUE

\* main() enables interrupts (sei) before its loop and the command handlers run
\* from that loop: a raised TCB1 or TCB3 interrupt is served before the main
\* loop executes its next handler
main_loop_runs == ~TCB1_OVF /\ ~TCB3_CAPT

\* variant of WindowCounter_reset: both stages restart from zero
WindowCounter_reset_zero(reload3) ==
    /\ TCB2_CNT' = 0
    /\ TCB3_CNT' = 0
    /\ status' = CLEAN
    /\ h_events' = <<>>
    /\ h_inputs' = 0
    /\ h_bounds' = 0

\* variant of WindowCounter_reset: status is left as it is
WindowCounter_reset_keep(reload3) ==
    /\ TCB2_CNT' = tcb2_reload
    /\ TCB3_CNT' = reload3
    /\ status' = status
    /\ h_events' = <<>>
    /\ h_inputs' = 0
    /\ h_bounds' = 0

\* WindowCounter::reset, as a state update shared by its callers
WindowCounter_reset(reload3) ==
    /\ TCB2_CNT' = tcb2_reload
    /\ TCB3_CNT' = reload3
    /\ status' = CLEAN
    /\ h_events' = <<>>
    /\ h_inputs' = 0
    /\ h_bounds' = 0

\* handle_window -> set_window_length -> set_period -> reset
SetWindowLength(new_length) ==
    /\ main_loop_runs
    /\ tcb3_cmp' = ToUint16(new_length - 1)
    /\ tcb3_reload' = ToUint16(tcb3_cmp' - 1)
    /\ period_m' = (tcb2_cmp + 1) * (tcb3_cmp' + 1)
    /\ WindowCounter_reset(tcb3_reload')
    /\ g_selected_window' = new_length
    /\ stream' = "OK"
    /\ UNCHANGED <<callVars, replyVars, capVars, lineVars, readVars, modVars,
                   window_pc, h_count, previous_charge, charge_difference,
                   negative_counts, negVars, TCB3_ENABLE, TCB3_CAPT, trigVars,
                   lastVars, ringVars, tickVars, h_pulses, h_pulse_steps,
                   h_windows, h_armed_count, h_delivered, h_overwrote,
                   h_clamped, h_handoffs, h_takes, h_captured>>

\* SENSE:WINDOW:PLC arguments explored: one token of the table and two that
\* are not in it
WindowTokens == {"0.02", "0.01", "0.05"}

\* the window a token asks for, in input events: its number of power-line
\* cycles times the (tcb2_cmp + 1) * WindowLength_PLC_1 events of one cycle
TokenEvents ==
    [token \in WindowTokens |->
        CASE token = "0.01" -> ((tcb2_cmp + 1) * WindowLength_PLC_1) \div 100
          [] token = "0.02" -> ((tcb2_cmp + 1) * WindowLength_PLC_1) \div 50
          [] token = "0.05" -> ((tcb2_cmp + 1) * WindowLength_PLC_1) \div 20]

\* the tokens parse_window_plc_token knows, with their WindowLength
WindowTable ==
    [token \in {"0.02", "0.1", "0.2", "0.5", "1", "2", "5", "10", "20", "50",
                "100", "200"} |->
        CASE token = "0.02" -> 5 [] token = "0.1" -> 25 [] token = "0.2" -> 50
          [] token = "0.5" -> 125 [] token = "1" -> 250 [] token = "2" -> 500
          [] token = "5" -> 1250 [] token = "10" -> 2500
          [] token = "20" -> 5000 [] token = "50" -> 12500
          [] token = "100" -> 25000 [] token = "200" -> 50000]

\* variant of parse_window_plc_token: every token is accepted and converted
\* to the nearest lower number of TCB3 counts
parse_window_plc_token_any(token) ==
    [ok |-> TRUE, window |-> TokenEvents[token] \div (tcb2_cmp + 1)]

parse_window_plc_token(token) ==
    IF token \in DOMAIN WindowTable
    THEN [ok |-> TRUE, window |-> WindowTable[token]]
    ELSE [ok |-> FALSE, window |-> 0]

\* handle_window, command form with one argument
handle_window(token) ==
    LET parsed == parse_window_plc_token(token)
    IN IF parsed.ok
       THEN SetWindowLength(parsed.window)
       ELSE /\ main_loop_runs
            /\ stream' = "ERR:ARG"
            /\ UNCHANGED <<callVars, replyVars, capVars, lineVars, readVars,
                           modVars, window_pc, globalVars, negVars,
                           winCfgVars, winHwVars, trigVars, lastVars,
                           ringVars, tickVars, histVars>>

\* handle_window taken one register write at a time, the interrupts being
\* served between the writes.  First set_window_length and set_period up to
\* the call of reset(): the compare value, the reload value and the period.
handle_window_begin(token) ==
    LET parsed == parse_window_plc_token(token)
    IN /\ main_loop_runs
       /\ window_pc = "idle"
       /\ parsed.ok
       /\ tcb3_cmp' = ToUint16(parsed.window - 1)
       /\ tcb3_reload' = ToUint16(tcb3_cmp' - 1)
       /\ period_m' = (tcb2_cmp + 1) * (tcb3_cmp' + 1)
       /\ window_pc' = "TCB2"
       /\ UNCHANGED <<callVars, replyVars, capVars, lineVars, readVars,
                      modVars, globalVars, negVars, g_selected_window,
                      winHwVars, trigVars, lastVars, ringVars, tickVars,
                      histVars, stream>>

\* WindowCounter::reset: TCB2.CNT = tcb2_reload
WindowCounter_reset_TCB2 ==
    /\ main_loop_runs
    /\ window_pc = "TCB2"
    /\ TCB2_CNT' = tcb2_reload
    /\ window_pc' = "TCB3"
    /\ UNCHANGED <<callVars, replyVars, capVars, lineVars, readVars, modVars,
                   globalVars, negVars, winCfgVars, TCB3_CNT, TCB3_ENABLE,
                   TCB3_CAPT, trigVars, lastVars, ringVars, tickVars,
                   histVars, stream>>

\* WindowCounter::reset: TCB3.CNT = tcb3_reload
WindowCounter_reset_TCB3 ==
    /\ main_loop_runs
    /\ window_pc = "TCB3"
    /\ TCB3_CNT' = tcb3_reload
    /\ h_inputs' = 0
    /\ window_pc' = "status"
    /\ UNCHANGED <<callVars, replyVars, capVars, lineVars, readVars, modVars,
                   globalVars, negVars, winCfgVars, TCB2_CNT, TCB3_ENABLE,
                   TCB3_CAPT, trigVars, lastVars, ringVars, tickVars,
                   h_events, h_pulses, h_pulse_steps, h_windows,
                   h_armed_count, h_delivered, h_overwrote, h_clamped,
                   h_bounds, h_count, stream, h_handoffs, h_takes, h_captured>>

\* WindowCounter::reset: status = CLEAN, then the end of handle_window
handle_window_end ==
    /\ main_loop_runs
    /\ window_pc = "status"
    /\ status' = CLEAN
    /\ h_events' = <<>>
    /\ h_bounds' = 0
    /\ g_selected_window' = tcb3_cmp + 1
    /\ stream' = "OK"
    /\ window_pc' = "idle"
    /\ UNCHANGED <<callVars, replyVars, capVars, lineVars, readVars, modVars,
                   previous_charge, charge_difference, negative_counts,
                   negVars, tcb3_cmp, tcb3_reload, period_m, winHwVars,
                   trigVars, lastVars, ringVars, tickVars, h_pulses,
                   h_pulse_steps, h_windows, h_armed_count, h_delivered,
                   h_overwrote, h_clamped, h_inputs, h_count, h_handoffs,
                   h_takes, h_captured>>

-----------------------------------------------------------------------------
(* ISR(ADC0_RESRDY_vect) (interrupts.cpp) *)

\* variant of ADC0_RESRDY_switch: the PREV_CHARGE case stores the new sample
\* as baseline
ADC0_RESRDY_switch_overwrite(adc_result) ==
    CASE status = CLEAN ->
           [status |-> PREV_CHARGE, previous_charge |-> adc_result,
            charge_difference |-> charge_difference]
      [] status = PREV_CHARGE ->
           [status |-> PREV_CHARGE, previous_charge |-> adc_result,
            charge_difference |-> charge_difference]
      [] status = NEGATIVE_COUNTS ->
           [status |-> RESULT_AVAIL, previous_charge |-> adc_result,
            charge_difference |-> ToInt16(adc_result - previous_charge)]
      [] OTHER ->
           [status |-> status, previous_charge |-> previous_charge,
            charge_difference |-> charge_difference]

\* switch (globals->status): the Globals fields after the handler
ADC0_RESRDY_switch(adc_result) ==
    CASE status = CLEAN ->
           [status |-> PREV_CHARGE, previous_charge |-> adc_result,
            charge_difference |-> charge_difference]
      [] status = NEGATIVE_COUNTS ->
           [status |-> RESULT_AVAIL, previous_charge |-> adc_result,
            charge_difference |-> ToInt16(adc_result - previous_charge)]
      [] OTHER ->
           [status |-> status, previous_charge |-> previous_charge,
            charge_difference |-> charge_difference]

ADC0_RESRDY(adc_result) ==
    /\ LET after == ADC0_RESRDY_switch(adc_result)
       IN /\ status' = after.status
          /\ previous_charge' = after.previous_charge
          /\ charge_difference' = after.charge_difference
    /\ h_events' = Record(h_events, [ev |-> "adc", reading |-> adc_result])
    /\ UNCHANGED <<callVars, replyVars, capVars, lineVars, readVars, modVars,
                   window_pc, h_count, h_inputs, h_bounds, stream,
                   negative_counts, negVars, winCfgVars, winHwVars, trigVars,
                   lastVars, ringVars, tickVars, h_pulses, h_pulse_steps,
                   h_windows, h_armed_count, h_delivered, h_overwrote,
                   h_clamped, h_handoffs, h_takes, h_captured>>

-----------------------------------------------------------------------------
(* Ticker::pit (ticker.hpp), ticks_per_second = 1024 *)

\* variant of Ticker_pit: "m_millis -= millis_per_tick"
Ticker_pit_decrement ==
    LET ticksL == (m_ticksL + 1) % 65536
        tmp == ticksL % 128
        dec == IF m_millis.l = 0
               THEN [h |-> (m_millis.h - 1) % 65536, l |-> 65535]
               ELSE [h |-> m_millis.h, l |-> m_millis.l - 1]
    IN /\ m_ticksL' = ticksL
       /\ m_secs' = IF ticksL % 1024 = 0 THEN U32Inc(m_secs) ELSE m_secs
       /\ m_millis' = IF ticksL % 1024 # 0 /\ tmp # 42 /\ tmp # 85
                      THEN dec ELSE m_millis
       /\ m_ticksH' = IF ticksL = 0 THEN (m_ticksH + 1) % 65536 ELSE m_ticksH
       /\ UNCHANGED <<callVars, replyVars, capVars, lineVars, readVars,
                      modVars, window_pc, stream, globalVars, negVars,
                      winCfgVars, winHwVars, trigVars, lastVars, ringVars,
                      histVars>>

Ticker_pit ==
    LET ticksL == (m_ticksL + 1) % 65536
        tmp == ticksL % 128
    IN /\ m_ticksL' = ticksL
       /\ m_secs' = IF ticksL % 1024 = 0 THEN U32Inc(m_secs) ELSE m_secs
       /\ m_millis' = IF ticksL % 1024 # 0 /\ tmp # 42 /\ tmp # 85
                      THEN U32Inc(m_millis) ELSE m_millis
       /\ m_ticksH' = IF ticksL = 0 THEN (m_ticksH + 1) % 65536 ELSE m_ticksH
       /\ UNCHANGED <<callVars, replyVars, capVars, lineVars, readVars,
                      modVars, window_pc, stream, globalVars, negVars,
                      winCfgVars, winHwVars, trigVars, lastVars, ringVars,
                      histVars>>

\* Ticker::millis
millis == m_millis

\* Ticker::ticks: m_ticks read through the union.  The anonymous struct lays
\* m_ticksH first, at the lower address; the AVR stores the least significant
\* byte first, so m_ticksH is the low half of m_ticks and m_ticksL, the half
\* pit() increments, is the high half.
ticks == [h |-> m_ticksL, l |-> m_ticksH]

-----------------------------------------------------------------------------
(* scpi.cpp *)

\* variant of clamp_measurement_buffer: "size() > SCPI_BUFFER_LIMIT"
RECURSIVE clamp_measurement_buffer_gt(_)
clamp_measurement_buffer_gt(r) ==
    IF size_no_atomic(r) > SCPI_BUFFER_LIMIT
    THEN LET g == get_no_atomic(r)
         IN IF g.ok THEN clamp_measurement_buffer_gt(g.ring) ELSE r
    ELSE r

RECURSIVE clamp_measurement_buffer(_)
clamp_measurement_buffer(r) ==
    IF size_no_atomic(r) >= SCPI_BUFFER_LIMIT
    THEN LET g == get_no_atomic(r)
         IN IF g.ok THEN clamp_measurement_buffer(g.ring) ELSE r
    ELSE r

\* variant of NewMeasurement: the record takes the charge difference
NewMeasurement_charge(value) ==
    [timestamp |-> millis, value |-> charge_difference]

\* the Measurement built by capture_measurement_if_ready
NewMeasurement(value) == [timestamp |-> millis, value |-> value]

\* variant of capture_measurement_if_ready: any status other than CLEAN is
\* taken as a finished result
capture_measurement_if_ready_any ==
    /\ main_loop_runs
    /\ g_trigger_armed
    /\ status # CLEAN
    /\ status' = CLEAN
    /\ LET measurement == NewMeasurement(negative_counts)
           clamped == clamp_measurement_buffer(meas_buffer)
           p == put_overwrite_no_atomic(clamped, measurement)
           remaining == IF g_samples_per_trigger > 0 /\ g_samples_remaining > 0
                        THEN g_samples_remaining - 1 ELSE g_samples_remaining
           stop == g_samples_per_trigger > 0 /\ remaining = 0
       IN /\ data' = p.ring.data
          /\ m_head' = p.ring.head
          /\ m_tail' = p.ring.tail
          /\ h_overwrote' = (h_overwrote \/ p.overwrote)
          /\ h_clamped' = (h_clamped \/ clamped # meas_buffer)
          /\ g_last_measurement' = measurement
          /\ h_captured' = <<measurement>>
          /\ g_has_last_measurement' = TRUE
          /\ g_samples_remaining' = remaining
          /\ g_trigger_armed' = ~stop
          /\ TCB1_ENABLE' = (TCB1_ENABLE /\ ~stop)
          /\ TCB3_ENABLE' = (TCB3_ENABLE /\ ~stop)
    /\ h_events' = <<>>
    /\ h_delivered' = h_delivered + 1
    /\ h_handoffs' = h_handoffs + 1
    /\ h_takes' = h_takes + 1
    /\ UNCHANGED <<callVars, replyVars, capVars, lineVars, readVars, modVars,
                   window_pc, h_count, h_inputs, h_bounds, stream,
                   previous_charge, charge_difference, negative_counts,
                   TCB1_CNT, TCB1_OVF, msb, winCfgVars, TCB2_CNT, TCB3_CNT,
                   TCB3_CAPT, g_samples_per_trigger, tickVars, h_pulses,
                   h_pulse_steps, h_windows, h_armed_count>>

capture_measurement_if_ready ==
    /\ main_loop_runs
    /\ g_trigger_armed
    /\ status = RESULT_AVAIL
    /\ status' = CLEAN
    /\ LET measurement == NewMeasurement(negative_counts)
           clamped == clamp_measurement_buffer(meas_buffer)
           p == put_overwrite_no_atomic(clamped, measurement)
           remaining == IF g_samples_per_trigger > 0 /\ g_samples_remaining > 0
                        THEN g_samples_remaining - 1 ELSE g_samples_remaining
           stop == g_samples_per_trigger > 0 /\ remaining = 0
       IN /\ data' = p.ring.data
          /\ m_head' = p.ring.head
          /\ m_tail' = p.ring.tail
          /\ h_overwrote' = (h_overwrote \/ p.overwrote)
          /\ h_clamped' = (h_clamped \/ clamped # meas_buffer)
          /\ g_last_measurement' = measurement
          /\ h_captured' = <<measurement>>
          /\ g_has_last_measurement' = TRUE
          /\ g_samples_remaining' = remaining
          /\ g_trigger_armed' = ~stop
          /\ TCB1_ENABLE' = (TCB1_ENABLE /\ ~stop)
          /\ TCB3_ENABLE' = (TCB3_ENABLE /\ ~stop)
    /\ h_events' = <<>>
    /\ h_delivered' = h_delivered + 1
    /\ h_handoffs' = h_handoffs + 1
    /\ h_takes' = h_takes + 1
    /\ UNCHANGED <<callVars, replyVars, capVars, lineVars, readVars, modVars,
                   window_pc, h_count, h_inputs, h_bounds, stream,
                   previous_charge, charge_difference, negative_counts,
                   TCB1_CNT, TCB1_OVF, msb, winCfgVars, TCB2_CNT, TCB3_CNT,
                   TCB3_CAPT, g_samples_per_trigger, tickVars, h_pulses,
                   h_pulse_steps, h_windows, h_armed_count>>

\* handle_sample_count with argument INF/0 (parsed = 0) or 1..SCPI_BUFFER_LIMIT
handle_sample_count(parsed) ==
    /\ main_loop_runs
    /\ parsed <= SCPI_BUFFER_LIMIT
    /\ g_samples_per_trigger' = parsed
    /\ stream' = "OK"
    /\ UNCHANGED <<callVars, replyVars, capVars, lineVars, readVars, modVars,
                   window_pc, globalVars, negVars, winCfgVars, winHwVars,
                   g_samples_remaining, g_trigger_armed, lastVars, ringVars,
                   tickVars, histVars>>

handle_trigger ==
    /\ main_loop_runs
    /\ TCB1_CNT' = 0
    /\ msb' = 0
    /\ WindowCounter_reset(tcb3_reload)
    /\ TCB1_ENABLE' = TRUE
    /\ TCB3_ENABLE' = TRUE
    /\ g_trigger_armed' = TRUE
    /\ g_samples_remaining' = g_samples_per_trigger
    /\ h_pulses' = 0
    /\ h_pulse_steps' = 0
    /\ h_count' = 0
    /\ h_armed_count' = g_samples_per_trigger
    /\ h_delivered' = 0
    /\ stream' = "OK"
    /\ UNCHANGED <<callVars, replyVars, capVars, lineVars, readVars, modVars,
                   window_pc, previous_charge, charge_difference,
                   negative_counts, TCB1_OVF, winCfgVars, TCB3_CAPT,
                   g_samples_per_trigger, lastVars, ringVars, tickVars,
                   h_windows, h_overwrote, h_clamped, h_handoffs, h_takes,
                   h_captured>>

\* the ring after `n` successful get() calls, and the last element read
RECURSIVE ReadN(_, _, _)
ReadN(r, last, n) ==
    IF n = 0 THEN [ring |-> r, last |-> last]
    ELSE LET g == get_no_atomic(r) IN ReadN(g.ring, g.value, n - 1)

SCPI_MAX_READ_COUNT == ring_size - 2

\* variant of handle_meas_read: no test of `available`, the loop reads until
\* get() fails and then replies UNDERFLOW
handle_meas_read_partial(requested) ==
    /\ main_loop_runs
    /\ IF requested = 0 \/ requested > SCPI_MAX_READ_COUNT
       THEN /\ stream' = "ERR:ARG"
            /\ UNCHANGED <<m_tail, lastVars>>
       ELSE LET available == size_no_atomic(meas_buffer)
                n == IF available < requested THEN available ELSE requested
                rd == ReadN(meas_buffer, g_last_measurement, n)
            IN /\ m_tail' = rd.ring.tail
               /\ g_last_measurement' = rd.last
               /\ g_has_last_measurement' = (g_has_last_measurement \/ n > 0)
               /\ stream' = IF available < requested THEN "ERR:UNDERFLOW"
                            ELSE "DATA"
    /\ UNCHANGED <<callVars, replyVars, capVars, lineVars, readVars, modVars,
                   window_pc, globalVars, negVars, winCfgVars, winHwVars,
                   trigVars, data, m_head, tickVars, histVars>>

\* handle_meas_read, query with argument `requested` (1 when absent)
handle_meas_read(requested) ==
    /\ main_loop_runs
    /\ IF requested = 0 \/ requested > SCPI_MAX_READ_COUNT
       THEN /\ stream' = "ERR:ARG"
            /\ UNCHANGED <<m_tail, lastVars>>
       ELSE IF size_no_atomic(meas_buffer) < requested
       THEN /\ stream' = "ERR:UNDERFLOW"
            /\ UNCHANGED <<m_tail, lastVars>>
       ELSE LET rd == ReadN(meas_buffer, g_last_measurement, requested)
            IN /\ m_tail' = rd.ring.tail
               /\ g_last_measurement' = rd.last
               /\ g_has_last_measurement' = TRUE
               /\ stream' = "DATA"
    /\ UNCHANGED <<callVars, replyVars, capVars, lineVars, readVars, modVars,
                   window_pc, globalVars, negVars, winCfgVars, winHwVars,
                   trigVars, data, m_head, tickVars, histVars>>

-----------------------------------------------------------------------------
(* Specification *)

\* LineReceiver<max_line_length>: the size of m_line (the template requires
\* at least 4); the end of a C string
max_line_length == 4
NUL == "\\0"

\* the state after construction and scpi_init
InitProgram ==
    /\ status = CLEAN
    /\ previous_charge = 0
    /\ charge_difference = 0
    /\ negative_counts = 0
    /\ TCB1_CNT = 0
    /\ TCB1_ENABLE = FALSE
    /\ TCB1_OVF = FALSE
    /\ msb = 0
    /\ tcb3_cmp = WindowLength_PLC_1 - 1
    /\ tcb3_reload = WindowLength_PLC_1 - 2
    /\ period_m = (tcb2_cmp + 1) * WindowLength_PLC_1
    /\ TCB2_CNT = tcb2_reload
    /\ TCB3_CNT = WindowLength_PLC_1 - 2
    /\ TCB3_ENABLE = FALSE
    /\ TCB3_CAPT = FALSE
    /\ g_selected_window = WindowLength_PLC_1
    /\ g_samples_per_trigger = 0
    /\ g_samples_remaining = 0
    /\ g_trigger_armed = FALSE
    /\ g_has_last_measurement = FALSE
    /\ g_last_measurement = [timestamp |-> U32(0), value |-> 0]
    /\ data = [i \in 0..(ring_size - 1) |-> [timestamp |-> U32(0), value |-> 0]]
    /\ m_head = 0
    /\ m_tail = 0
    /\ m_ticksL = 0
    /\ m_ticksH = 0
    /\ m_secs = U32(0)
    /\ m_millis = U32(0)
    /\ h_events = <<>>
    /\ h_pulses = 0
    /\ h_pulse_steps = 0
    /\ h_windows = 0
    /\ h_armed_count = 0
    /\ h_delivered = 0
    /\ h_handoffs = 0
    /\ h_takes = 0
    /\ h_captured = <<>>
    /\ reply_measurement = [timestamp |-> U32(0), value |-> 0]
    /\ h_overwrote = FALSE
    /\ h_clamped = FALSE
    /\ h_inputs = 0
    /\ h_bounds = 0
    /\ h_count = 0
    /\ stream = ""
    /\ window_pc = "idle"
    /\ h_fifo = <<>>
    /\ h_puts = 0
    /\ h_got = [op |-> "none", ok |-> FALSE,
                value |-> [timestamp |-> U32(0), value |-> 0],
                want_ok |-> FALSE,
                want |-> [timestamp |-> U32(0), value |-> 0]]
    /\ modN_init_lo = 0
    /\ modN_init_hi = 0
    /\ modN_period = U32(0)
    /\ TCB3_OVF = FALSE
    /\ TCB0_CNT = 0
    /\ TCB0_ENABLE = FALSE
    /\ window_positive = U32(0)
    /\ window_ready = 0
    /\ h_mod_events = U32(0)
    /\ h_mod_windows = 0
    /\ h_mod_singles = 0
    /\ read_pc = "idle"
    /\ msb1 = 0
    /\ lsw = 0
    /\ msb2 = 0
    /\ read_value = U32(0)
    /\ h_read_start = U32(0)
    /\ h_read_wrapped = FALSE
    /\ h_reads = 0
    /\ h_pos_events = 0
    /\ m_stream = <<>>
    /\ m_line = [i \in 1..max_line_length |-> NUL]
    /\ m_line_length = 0
    /\ m_has_line = FALSE
    /\ m_drop_until_eol = FALSE
    /\ m_overflow_count = 0
    /\ poll_result = FALSE
    /\ h_line_read = <<>>
    /\ h_lines = <<>>
    /\ capture_pc = "idle"
    /\ capture_value = 0

Init ==
    /\ InitProgram
    /\ pack_args = [I |-> U32(0), K |-> 0, J |-> U32(0), D |-> 0]
    /\ pack_result = U32(0)
    /\ pack_done = FALSE

\* The status machine: both handlers that write status, the consumer and the
\* two callers of WindowCounter::reset.  No pulse reaches TCB1.
Next ==
    \/ \E adc_result \in Samples : ADC0_RESRDY(adc_result)
    \/ (h_windows < MaxWindows /\ WindowEnd)
    \/ WindowCounter_isr
    \/ capture_measurement_if_ready
    \/ handle_trigger
    \/ \E new_length \in WindowLengths : SetWindowLength(new_length)

Spec == Init /\ [][Next]_vars

\* The pulse counter across window boundaries.
NextCnt ==
    \/ \E n \in PulseBatches : (h_pulse_steps < MaxCntPulseSteps /\ Pulse(n))
    \/ NegativeCounter_isr
    \/ (h_windows < MaxCntWindows /\ WindowEnd)
    \/ WindowCounter_isr
    \/ handle_trigger

SpecCnt == Init /\ [][NextCnt]_vars

\* Trigger sessions: the sample count, the trigger and the consumer.
NextSes ==
    \/ ADC0_RESRDY(AcqSample)
    \/ (h_windows < MaxSesWindows /\ WindowEnd)
    \/ WindowCounter_isr
    \/ capture_measurement_if_ready
    \/ handle_trigger
    \/ \E parsed \in 0..MaxSamples : handle_sample_count(parsed)

SpecSes == Init /\ [][NextSes]_vars

\* The measurement buffer: the consumer, the timebase and FETCH.
NextBuf ==
    \/ ADC0_RESRDY(AcqSample)
    \/ (h_windows < MaxBufWindows /\ WindowEnd)
    \/ WindowCounter_isr
    \/ (m_ticksL < MaxTicks /\ Ticker_pit)
    \/ capture_measurement_if_ready
    \/ handle_trigger
    \/ \E requested \in 0..MaxRead : handle_meas_read(requested)

SpecBuf == Init /\ [][NextBuf]_vars

\* hardware: the input events up to the next boundary, as WindowEnd, the
\* boundaries not being counted
WindowBoundary ==
    /\ TCB3_ENABLE
    /\ ~TCB3_CAPT
    /\ TCB3_CAPT' = TRUE
    /\ TCB2_CNT' = tcb2_cmp
    /\ TCB3_CNT' = tcb3_cmp
    /\ h_inputs' = 0
    /\ UNCHANGED <<callVars, replyVars, capVars, lineVars, readVars, modVars,
                   window_pc, h_count, stream, globalVars, negVars,
                   winCfgVars, TCB3_ENABLE, trigVars, lastVars, ringVars,
                   tickVars, h_events, h_pulses, h_pulse_steps, h_armed_count,
                   h_delivered, h_overwrote, h_clamped, h_windows, h_bounds,
                   h_handoffs, h_takes, h_captured>>

\* One trigger session after another, each for a finite number of samples, the
\* sample count being set between the sessions only.  Window boundaries and
\* sample-ready interrupts go on for ever and the handlers are served (weak
\* fairness); the main loop calls capture_measurement_if_ready on every pass,
\* so the hand-off is made if a result is there again and again (strong
\* fairness, which grants the consumer more than a pass of the loop does).
NextLive ==
    \/ ADC0_RESRDY(AcqSample)
    \/ WindowBoundary
    \/ WindowCounter_isr
    \/ capture_measurement_if_ready
    \/ (~g_trigger_armed /\ g_samples_per_trigger > 0 /\ handle_trigger)
    \/ \E parsed \in 1..MaxSamples :
           (~g_trigger_armed /\ handle_sample_count(parsed))

SpecLive ==
    /\ Init
    /\ [][NextLive]_vars
    /\ WF_vars(ADC0_RESRDY(AcqSample))
    /\ WF_vars(WindowBoundary)
    /\ WF_vars(WindowCounter_isr)
    /\ SF_vars(capture_measurement_if_ready)

\* variant of capture_armed: the test of g_trigger_armed is left out
capture_armed_always == TRUE

\* capture_measurement_if_ready: "if (!g_trigger_armed) return;" passed
capture_armed == g_trigger_armed

\* variant of capture_has_measurement: every status but CLEAN counts as a
\* result
capture_has_measurement_any == status # CLEAN

\* capture_measurement_if_ready: "if (globals->status == Status::RESULT_AVAIL)"
capture_has_measurement == status = RESULT_AVAIL

\* capture_measurement_if_ready up to the end of its ATOMIC_BLOCK, the result
\* being there: value is read and status cleared with interrupts disabled
capture_take ==
    /\ main_loop_runs
    /\ capture_pc = "idle"
    /\ capture_armed
    /\ capture_has_measurement
    /\ capture_value' = negative_counts
    /\ status' = CLEAN
    /\ capture_pc' = "put"
    /\ h_events' = <<>>
    /\ h_takes' = h_takes + 1
    /\ UNCHANGED <<callVars, replyVars, lineVars, readVars, modVars,
                   window_pc, h_count, h_inputs, h_bounds, stream,
                   previous_charge, charge_difference, negative_counts,
                   negVars, winCfgVars, winHwVars, trigVars, lastVars,
                   ringVars, tickVars, h_pulses, h_pulse_steps, h_windows,
                   h_armed_count, h_delivered, h_overwrote, h_clamped,
                   h_handoffs, h_captured>>

\* capture_measurement_if_ready after its ATOMIC_BLOCK, interrupts enabled:
\* the Measurement is built and put, the session counted down and stopped
capture_put ==
    /\ main_loop_runs
    /\ capture_pc = "put"
    /\ capture_pc' = "idle"
    /\ LET measurement == NewMeasurement(capture_value)
           clamped == clamp_measurement_buffer(meas_buffer)
           p == put_overwrite_no_atomic(clamped, measurement)
           remaining == IF g_samples_per_trigger > 0 /\ g_samples_remaining > 0
                        THEN g_samples_remaining - 1 ELSE g_samples_remaining
           stop == g_samples_per_trigger > 0 /\ remaining = 0
       IN /\ data' = p.ring.data
          /\ m_head' = p.ring.head
          /\ m_tail' = p.ring.tail
          /\ h_overwrote' = (h_overwrote \/ p.overwrote)
          /\ h_clamped' = (h_clamped \/ clamped # meas_buffer)
          /\ g_last_measurement' = measurement
          /\ h_captured' = <<measurement>>
          /\ g_has_last_measurement' = TRUE
          /\ g_samples_remaining' = remaining
          /\ g_trigger_armed' = ~stop
          /\ TCB1_ENABLE' = (TCB1_ENABLE /\ ~stop)
          /\ TCB3_ENABLE' = (TCB3_ENABLE /\ ~stop)
    /\ h_delivered' = h_delivered + 1
    /\ h_handoffs' = h_handoffs + 1
    /\ UNCHANGED <<callVars, replyVars, lineVars, readVars, modVars,
                   window_pc, h_count, h_inputs, h_bounds, stream, globalVars,
                   TCB1_CNT, TCB1_OVF, msb, winCfgVars, TCB2_CNT, TCB3_CNT,
                   TCB3_CAPT, g_samples_per_trigger, tickVars, h_events,
                   h_pulses, h_pulse_steps, h_windows, h_armed_count,
                   capture_value, h_takes>>

\* The idle trigger: sessions of a finite number of samples, the consumer taken
\* in its two steps with the interrupts served between them, the commands run
\* by the main loop between two calls of the consumer.
MaxIdleWindows == 3

NextIdle ==
    \/ ADC0_RESRDY(AcqSample)
    \/ (h_windows < MaxIdleWindows /\ WindowEnd)
    \/ WindowCounter_isr
    \/ capture_take
    \/ capture_put
    \/ (capture_pc = "idle" /\ handle_trigger)
    \/ \E parsed \in 1..MaxSamples :
           (capture_pc = "idle" /\ handle_sample_count(parsed))

SpecIdle == Init /\ [][NextIdle]_vars

\* handle_meas_last, query without argument
handle_meas_last ==
    /\ main_loop_runs
    /\ IF ~g_has_last_measurement
       THEN /\ stream' = "ERR:NO_DATA"
            /\ UNCHANGED reply_measurement
       ELSE /\ stream' = "DATA"
            /\ reply_measurement' = g_last_measurement
    /\ UNCHANGED <<callVars, capVars, lineVars, readVars, modVars, window_pc,
                   globalVars, negVars, winCfgVars, winHwVars, trigVars,
                   lastVars, ringVars, tickVars, histVars>>

\* MEAS:LAST? among captures and drains: the consumer fills meas_buffer, the
\* timebase runs, MEAS:READ? drains.
MaxLastWindows == 2
MaxLastTicks == 2

NextLast ==
    \/ ADC0_RESRDY(AcqSample)
    \/ (h_windows < MaxLastWindows /\ WindowEnd)
    \/ WindowCounter_isr
    \/ (m_ticksL < MaxLastTicks /\ Ticker_pit)
    \/ capture_measurement_if_ready
    \/ handle_trigger
    \/ \E requested \in 1..MaxRead : handle_meas_read(requested)
    \/ handle_meas_last

SpecLast == Init /\ [][NextLast]_vars

\* FETCH on the measurement buffer: the consumer fills it, the timebase stands
\* still.
MaxFetchWindows == 2

NextFetch ==
    \/ ADC0_RESRDY(AcqSample)
    \/ (h_windows < MaxFetchWindows /\ WindowEnd)
    \/ WindowCounter_isr
    \/ capture_measurement_if_ready
    \/ handle_trigger
    \/ \E requested \in 0..MaxRead : handle_meas_read(requested)

SpecFetch == Init /\ [][NextFetch]_vars

\* Acquisition: gated pulses, both handlers that write status and the consumer.
NextAcq ==
    \/ (h_pulse_steps < MaxPulseSteps /\ Pulse(1))
    \/ \E adc_result \in Samples : ADC0_RESRDY(adc_result)
    \/ (h_windows < MaxAcqWindows /\ WindowEnd)
    \/ WindowCounter_isr
    \/ capture_measurement_if_ready
    \/ handle_trigger

SpecAcq == Init /\ [][NextAcq]_vars

\* The window counter: input events counted by the TCB2/TCB3 cascade.
NextWin ==
    \/ (h_windows < MaxWinBounds /\ InputEvent)
    \/ WindowCounter_isr
    \/ handle_trigger
    \/ \E token \in WindowTokens : handle_window(token)

SpecWin == Init /\ [][NextWin]_vars

\* The window counter while handle_window reloads it: input events and the
\* boundary handler between the register writes of WindowCounter::reset.
NextRst ==
    \/ (h_windows < MaxRstBounds /\ h_inputs < MaxRstInputs /\ InputEvent)
    \/ WindowCounter_isr
    \/ (window_pc = "idle" /\ handle_trigger)
    \/ \E token \in WindowTokens : handle_window_begin(token)
    \/ WindowCounter_reset_TCB2
    \/ WindowCounter_reset_TCB3
    \/ handle_window_end

SpecRst == Init /\ [][NextRst]_vars

\* The arguments pack_q0_32 is called with: zero, the values of the three
\* examples, the ends of the documented ranges (2048 < D < 4095, J <= 750000)
\* and the ends of the C types.
PackI == {U32(0), U32(1), U32(499), U32(500), U32(999), U32(1000),
          U32(749999), U32(750000), [h |-> 65535, l |-> 65535]}
PackK == {0, 1, 1500, 2048, 2999, 4093, 65535}
PackJ == {U32(0), U32(1), U32(1000), U32(750000), U32(1048576),
          U32(1500000), [h |-> 65535, l |-> 65535]}
PackD == {0, 1, 2049, 3000, 4094, 4096, 65535}

InitPack ==
    /\ InitProgram
    /\ pack_args \in [I : PackI, K : PackK, J : PackJ, D : PackD]
    /\ pack_result = U32(0)
    /\ pack_done = FALSE

\* the call pack_q0_32(I, K, J, D) returns
pack_call ==
    /\ ~pack_done
    /\ pack_result' = pack_q0_32(pack_args.I, pack_args.K, pack_args.J,
                                 pack_args.D)
    /\ pack_done' = TRUE
    /\ UNCHANGED <<pack_args, globalVars, negVars, winCfgVars, winHwVars,
                   trigVars, lastVars, ringVars, tickVars, histVars, stream,
                   window_pc, h_fifo, h_puts, h_got,
                   modVars,
                   readVars,
                   lineVars,
                   capVars,
                   replyVars>>

NextPack == pack_call

SpecPack == InitPack /\ [][NextPack]_vars

\* The conversion applied to the configured window: J is the total number of
\* events of the acquisition window, window_counter.period().
GridFrequency_FREQ_60HZ == 25
\* the calibrated values of D: 2048 < D < 4095
CalibratedD == {D \in 0..65535 : 2048 < D /\ D < 4095}
PeriodI == {0, 1}
PeriodK == {0, 2048}
PeriodD == {2049, 2863, 2864, 4094}
\* SENSE:WINDOW:PLC arguments: every token of the table and one that is not
\* in it
PeriodTokens == DOMAIN WindowTable \cup {"0.01"}

\* one conversion of a measurement of the configured window
pack_period_call(I, K, D) ==
    /\ main_loop_runs
    /\ ~pack_done
    /\ pack_args' = [I |-> U32(I), K |-> K, J |-> U32(period_m), D |-> D]
    /\ pack_result' = pack_q0_32(U32(I), K, U32(period_m), D)
    /\ pack_done' = TRUE
    /\ UNCHANGED <<globalVars, negVars, winCfgVars, winHwVars, trigVars,
                   lastVars, ringVars, tickVars, histVars, stream, window_pc,
                   h_fifo, h_puts, h_got,
                   modVars,
                   readVars,
                   lineVars,
                   capVars,
                   replyVars>>

NextPeriod ==
    \/ \E token \in PeriodTokens : handle_window(token)
    \/ \E I \in PeriodI, K \in PeriodK, D \in PeriodD :
          pack_period_call(I, K, D)

SpecPeriod == Init /\ [][NextPeriod]_vars

\* The range of the negative counter: one continuous acquisition (sample
\* count 0), triggered once after the window is chosen among the two longest.
\* The pulses are gated by the input events of
\* the window counter, so a window of period_m events counts at most period_m
\* pulses; they arrive in batches of one full low word less one.  The input
\* is at full scale: a window ends when it has no room for another batch.
MaxRangeWindows == 12
RangeTokens == {"100", "200"}
RangePulseBatches == {65535}
\* the largest value of the low word and the high byte together
NegativeCounterRange == 16777215

WindowPulse(n) ==
    /\ h_pulses + n <= period_m
    /\ h_count <= NegativeCounterRange
    /\ Pulse(n)

WindowFull ==
    \A n \in RangePulseBatches : h_pulses + n > period_m

NextRange ==
    \/ \E n \in RangePulseBatches : WindowPulse(n)
    \/ NegativeCounter_isr
    \/ (h_windows < MaxRangeWindows /\ WindowFull /\ WindowEnd)
    \/ WindowCounter_isr
    \/ (~g_trigger_armed /\ handle_trigger)
    \/ \E token \in RangeTokens : (~g_trigger_armed /\ handle_window(token))

SpecRange == Init /\ [][NextRange]_vars

\* Ring::put and Ring::get called on meas_buffer in any order.  The elements
\* put are numbered in their timestamp, so that no two of them are equal.
MaxRingPuts == 8

\* a first-in first-out queue of ring_size - 1 places that drops its oldest
\* element when an element is added to a full queue
FifoPut(q, c) ==
    IF Len(q) = ring_size - 1 THEN Append(Tail(q), c) ELSE Append(q, c)

\* Ring::put(c)
Ring_put(c) ==
    /\ LET p == put_overwrite_no_atomic(meas_buffer, c)
       IN /\ data' = p.ring.data
          /\ m_head' = p.ring.head
          /\ m_tail' = p.ring.tail
    /\ h_fifo' = FifoPut(h_fifo, c)
    /\ h_puts' = h_puts + 1
    /\ h_got' = [h_got EXCEPT !.op = "put"]
    /\ UNCHANGED <<pack_args, pack_result, pack_done, globalVars, negVars,
                   winCfgVars, winHwVars, trigVars, lastVars, tickVars,
                   histVars, stream, window_pc,
                   modVars,
                   readVars,
                   lineVars,
                   capVars,
                   replyVars>>

\* Ring::get(out_value): out_value is written only when get returns true
Ring_get ==
    /\ LET g == get_no_atomic(meas_buffer)
       IN /\ m_tail' = g.ring.tail
          /\ h_got' = [op |-> "get", ok |-> g.ok,
                       value |-> IF g.ok THEN g.value ELSE h_got.value,
                       want_ok |-> h_fifo # <<>>,
                       want |-> IF h_fifo # <<>> THEN Head(h_fifo)
                                ELSE h_got.want]
    /\ h_fifo' = IF h_fifo # <<>> THEN Tail(h_fifo) ELSE h_fifo
    /\ UNCHANGED <<pack_args, pack_result, pack_done, h_puts, data, m_head,
                   globalVars, negVars, winCfgVars, winHwVars, trigVars,
                   lastVars, tickVars, histVars, stream, window_pc,
                   modVars,
                   readVars,
                   lineVars,
                   capVars,
                   replyVars>>

NextRing ==
    \/ \E sample \in Samples :
          /\ h_puts < MaxRingPuts
          /\ Ring_put([timestamp |-> U32(h_puts + 1), value |-> sample])
    \/ Ring_get

SpecRing == Init /\ [][NextRing]_vars

\* The periodic interrupt alone, for two seconds of ticks.
MaxPitCalls == 2048

NextTick == m_ticksH = 0 /\ m_ticksL < MaxPitCalls /\ Ticker_pit

SpecTick == Init /\ [][NextTick]_vars

-----------------------------------------------------------------------------
(* counters.h: the modulo-N window counter TCB2 + TCB3 and the positive
   counter TCB0 + TCB1, with main() and ISR(TCB3_INT_vect).  Both are cascades
   of two 16-bit stages: the high stage counts the wraps of the low stage. *)

\* variant of modN_init: the one's complement of N
modN_init_complement(N) == [h |-> 65535 - N.h, l |-> 65535 - N.l]

\* setup_modN: uint32_t init = 0u - N
modN_init(N) ==
    [h |-> (65536 - N.h - (IF N.l # 0 THEN 1 ELSE 0)) % 65536,
     l |-> (65536 - N.l) % 65536]

\* x + y on uint32_t
U32Add(x, y) ==
    [h |-> (x.h + y.h + (x.l + y.l) \div 65536) % 65536,
     l |-> (x.l + y.l) % 65536]

\* the values of N: small ones, the period main() sets, multiples of 65536,
\* their neighbours, and the largest ones
ModNPeriods ==
    {[h |-> 0, l |-> 1], [h |-> 0, l |-> 2], [h |-> 0, l |-> 1000],
     [h |-> 0, l |-> 7500], [h |-> 0, l |-> 65535], [h |-> 1, l |-> 0],
     [h |-> 1, l |-> 1], [h |-> 2, l |-> 0], [h |-> 2, l |-> 1],
     [h |-> 15, l |-> 16960], [h |-> 32768, l |-> 0], [h |-> 65535, l |-> 0],
     [h |-> 65535, l |-> 65535]}

\* main(): init_modN(), setup_modN(N), stop_counters(), reset_counters(),
\* start_counters(), start_modN(), all before sei()
modN_main(N) ==
    /\ modN_period = U32(0)
    /\ modN_init_lo' = modN_init(N).l
    /\ modN_init_hi' = modN_init(N).h
    /\ modN_period' = N
    /\ TCB2_CNT' = modN_init(N).l
    /\ TCB3_CNT' = modN_init(N).h
    /\ TCB3_OVF' = FALSE
    /\ TCB0_CNT' = 0
    /\ TCB1_CNT' = 0
    /\ TCB0_ENABLE' = TRUE
    /\ TCB1_ENABLE' = TRUE
    /\ TCB3_ENABLE' = TRUE
    /\ h_mod_events' = U32(0)
    /\ h_mod_singles' = 0
    /\ UNCHANGED <<callVars, replyVars, capVars, lineVars, readVars,
                   globalVars, TCB1_OVF, msb, winCfgVars, TCB3_CAPT, trigVars,
                   lastVars, ringVars, tickVars, histVars, stream, window_pc,
                   window_positive, window_ready, h_mod_windows>>

\* One event on TCB2's count input: TCB2 counts, its wrap from 0xFFFF to 0 is
\* the event TCB3 counts, and TCB3's wrap raises the overflow flag.
modN_event ==
    /\ TCB3_ENABLE
    /\ modN_period # U32(0)
    /\ TCB2_CNT' = (TCB2_CNT + 1) % 65536
    /\ TCB3_CNT' = IF TCB2_CNT = 65535 THEN (TCB3_CNT + 1) % 65536
                   ELSE TCB3_CNT
    /\ TCB3_OVF' = (TCB3_OVF \/ (TCB2_CNT = 65535 /\ TCB3_CNT = 65535))
    /\ h_mod_events' = U32Inc(h_mod_events)
    /\ h_mod_singles' = h_mod_singles + 1
    /\ UNCHANGED <<callVars, replyVars, capVars, lineVars, readVars,
                   globalVars, negVars, winCfgVars, TCB3_ENABLE, TCB3_CAPT,
                   trigVars, lastVars, ringVars, tickVars, histVars, stream,
                   window_pc, modN_init_lo, modN_init_hi, modN_period,
                   TCB0_CNT, TCB0_ENABLE, window_positive, window_ready,
                   h_mod_windows>>

\* 65535 - TCB2.CNT events at once: TCB2 reaches 0xFFFF without a wrap
modN_events_to_top ==
    /\ TCB3_ENABLE
    /\ modN_period # U32(0)
    /\ TCB2_CNT < 65535
    /\ TCB2_CNT' = 65535
    /\ h_mod_events' = U32Add(h_mod_events, U32(65535 - TCB2_CNT))
    /\ UNCHANGED <<callVars, replyVars, capVars, lineVars, readVars,
                   globalVars, negVars, winCfgVars, TCB3_CNT, TCB3_ENABLE,
                   TCB3_CAPT, trigVars, lastVars, ringVars, tickVars,
                   histVars, stream, window_pc, modN_init_lo, modN_init_hi,
                   modN_period, TCB3_OVF, TCB0_CNT, TCB0_ENABLE,
                   window_positive, window_ready, h_mod_windows,
                   h_mod_singles>>

\* 65536 * (65535 - TCB3.CNT) events at once: TCB2 wraps 65535 - TCB3.CNT
\* times and comes back to its value, TCB3 reaches 0xFFFF without a wrap
modN_rounds_to_top ==
    /\ TCB3_ENABLE
    /\ modN_period # U32(0)
    /\ TCB3_CNT < 65535
    /\ TCB3_CNT' = 65535
    /\ h_mod_events' = U32Add(h_mod_events, [h |-> 65535 - TCB3_CNT, l |-> 0])
    /\ UNCHANGED <<callVars, replyVars, capVars, lineVars, readVars,
                   globalVars, negVars, winCfgVars, TCB2_CNT, TCB3_ENABLE,
                   TCB3_CAPT, trigVars, lastVars, ringVars, tickVars,
                   histVars, stream, window_pc, modN_init_lo, modN_init_hi,
                   modN_period, TCB3_OVF, TCB0_CNT, TCB0_ENABLE,
                   window_positive, window_ready, h_mod_windows,
                   h_mod_singles>>

\* ISR(TCB3_INT_vect): acknowledge, stop_modN(), stop_counters(), read the
\* stopped positive counter, reset_counters(), reload_modN(),
\* start_counters(), start_modN()
TCB3_INT_vect ==
    /\ TCB3_OVF
    /\ TCB3_OVF' = FALSE
    /\ window_positive' = [h |-> TCB1_CNT, l |-> TCB0_CNT]
    /\ window_ready' = 1
    /\ TCB0_CNT' = 0
    /\ TCB1_CNT' = 0
    /\ TCB2_CNT' = modN_init_lo
    /\ TCB3_CNT' = modN_init_hi
    /\ TCB0_ENABLE' = TRUE
    /\ TCB1_ENABLE' = TRUE
    /\ TCB3_ENABLE' = TRUE
    /\ h_mod_events' = U32(0)
    /\ h_mod_singles' = 0
    /\ h_mod_windows' = h_mod_windows + 1
    /\ UNCHANGED <<callVars, replyVars, capVars, lineVars, readVars,
                   globalVars, TCB1_OVF, msb, winCfgVars, TCB3_CAPT, trigVars,
                   lastVars, ringVars, tickVars, histVars, stream, window_pc,
                   modN_init_lo, modN_init_hi, modN_period>>

\* The modulo-N counter for three windows of every N; events come one at a
\* time at the last wrap and a few times elsewhere, and in runs up to a wrap.
MaxModWindows == 3
MaxModSingles == 2
NextModN ==
    \/ \E N \in ModNPeriods : modN_main(N)
    \/ /\ h_mod_windows < MaxModWindows
       /\ ~TCB3_OVF
       /\ (TCB2_CNT = 65535 /\ TCB3_CNT = 65535) \/ h_mod_singles < MaxModSingles
       /\ modN_event
    \/ (h_mod_windows < MaxModWindows /\ ~TCB3_OVF /\ modN_events_to_top)
    \/ (h_mod_windows < MaxModWindows /\ ~TCB3_OVF /\ modN_rounds_to_top)
    \/ TCB3_INT_vect

SpecModN == Init /\ [][NextModN]_vars

\* The positive counter TCB0 + TCB1 read by read_positive() while it counts.

\* variant of read_positive_repeat: the loop body runs once
read_positive_once(first, second) == FALSE

\* read_positive: the condition of "while (msb1 != msb2)"
read_positive_repeat(first, second) == first # second

\* the 32-bit positive counter
positive == [h |-> TCB1_CNT, l |-> TCB0_CNT]

\* init_positive(): both stages cleared and enabled
init_positive ==
    /\ ~TCB0_ENABLE
    /\ TCB0_CNT' = 0
    /\ TCB1_CNT' = 0
    /\ TCB0_ENABLE' = TRUE
    /\ TCB1_ENABLE' = TRUE
    /\ UNCHANGED <<callVars, replyVars, capVars, lineVars, readVars,
                   globalVars, TCB1_OVF, msb, winCfgVars, winHwVars, trigVars,
                   lastVars, ringVars, tickVars, histVars, stream, window_pc,
                   modN_init_lo, modN_init_hi, modN_period, TCB3_OVF,
                   window_positive, window_ready, h_mod_events, h_mod_windows,
                   h_mod_singles>>

\* One event on TCB0's count input: TCB0 counts, and its wrap from 0xFFFF to 0
\* is the event TCB1 counts.  No interrupt is enabled on either stage.
positive_event ==
    /\ TCB0_ENABLE
    /\ TCB0_CNT' = (TCB0_CNT + 1) % 65536
    /\ TCB1_CNT' = IF TCB0_CNT = 65535 THEN (TCB1_CNT + 1) % 65536
                   ELSE TCB1_CNT
    /\ h_read_wrapped' = (h_read_wrapped \/ TCB0_CNT = 65535)
    /\ h_pos_events' = h_pos_events + 1
    /\ UNCHANGED <<callVars, replyVars, capVars, lineVars, globalVars,
                   TCB1_ENABLE, TCB1_OVF, msb, winCfgVars, winHwVars,
                   trigVars, lastVars, ringVars, tickVars, histVars, stream,
                   window_pc, modN_init_lo, modN_init_hi, modN_period,
                   TCB3_OVF, TCB0_ENABLE, window_positive, window_ready,
                   h_mod_events, h_mod_windows, h_mod_singles, read_pc, msb1,
                   lsw, msb2, read_value, h_read_start, h_reads>>

\* events up to the one before a wrap of TCB0, at once
positive_events_to_top ==
    /\ TCB0_ENABLE
    /\ TCB0_CNT < 65535
    /\ TCB0_CNT' = 65535
    /\ UNCHANGED <<callVars, replyVars, capVars, lineVars, readVars,
                   globalVars, negVars, winCfgVars, winHwVars, trigVars,
                   lastVars, ringVars, tickVars, histVars, stream, window_pc,
                   modN_init_lo, modN_init_hi, modN_period, TCB3_OVF,
                   TCB0_ENABLE, window_positive, window_ready, h_mod_events,
                   h_mod_windows, h_mod_singles>>

\* read_positive is called
read_positive_call ==
    /\ read_pc = "idle"
    /\ read_pc' = "msb1"
    /\ h_read_start' = positive
    /\ UNCHANGED <<callVars, replyVars, capVars, lineVars, globalVars,
                   negVars, winCfgVars, winHwVars, trigVars, lastVars,
                   ringVars, tickVars, histVars, stream, window_pc, modVars,
                   msb1, lsw, msb2, read_value, h_read_wrapped, h_reads,
                   h_pos_events>>

\* msb1 = TCB1.CNT
read_positive_msb1 ==
    /\ read_pc = "msb1"
    /\ msb1' = TCB1_CNT
    /\ read_pc' = "lsw"
    /\ h_read_wrapped' = FALSE
    /\ UNCHANGED <<callVars, replyVars, capVars, lineVars, globalVars,
                   negVars, winCfgVars, winHwVars, trigVars, lastVars,
                   ringVars, tickVars, histVars, stream, window_pc, modVars,
                   lsw, msb2, read_value, h_read_start, h_reads, h_pos_events>>

\* lsw = TCB0.CNT
read_positive_lsw ==
    /\ read_pc = "lsw"
    /\ lsw' = TCB0_CNT
    /\ read_pc' = "msb2"
    /\ UNCHANGED <<callVars, replyVars, capVars, lineVars, globalVars,
                   negVars, winCfgVars, winHwVars, trigVars, lastVars,
                   ringVars, tickVars, histVars, stream, window_pc, modVars,
                   msb1, msb2, read_value, h_read_start, h_read_wrapped,
                   h_reads, h_pos_events>>

\* msb2 = TCB1.CNT, the test of the loop, and the return
read_positive_msb2 ==
    /\ read_pc = "msb2"
    /\ msb2' = TCB1_CNT
    /\ IF read_positive_repeat(msb1, TCB1_CNT)
       THEN /\ read_pc' = "msb1"
            /\ UNCHANGED <<read_value, h_reads>>
       ELSE /\ read_pc' = "idle"
            /\ read_value' = [h |-> TCB1_CNT, l |-> lsw]
            /\ h_reads' = h_reads + 1
    /\ UNCHANGED <<callVars, replyVars, capVars, lineVars, globalVars,
                   negVars, winCfgVars, winHwVars, trigVars, lastVars,
                   ringVars, tickVars, histVars, stream, window_pc, modVars,
                   msb1, lsw, h_read_start, h_read_wrapped, h_pos_events>>

MaxReads == 2
MaxPosEvents == 4
NextRead ==
    \/ init_positive
    \/ (h_pos_events < MaxPosEvents /\ positive_event)
    \/ positive_events_to_top
    \/ (h_reads < MaxReads /\ read_positive_call)
    \/ read_positive_msb1
    \/ read_positive_lsw
    \/ read_positive_msb2

SpecRead == Init /\ [][NextRead]_vars

\* line_parser.hpp: LineReceiver, the collector of newline-terminated lines.

\* the bytes a transport delivers: two printable characters, '\r' and '\n'
LineBytes == {"a", "b", "\r", "\n"}

\* variant of line_is_full: the test is made one character late
line_is_full_late(length) == length >= max_line_length

\* LineReceiver::poll: "m_line_length + 1 >= max_line_length"
line_is_full(length) == length + 1 >= max_line_length

\* LineReceiver::poll: the body of the loop for one byte read from the stream;
\* done is the "return true" of the '\n' branch
poll_byte(r, byte) ==
    IF r.drop
    THEN IF byte = "\n" THEN [r EXCEPT !.drop = FALSE, !.length = 0] ELSE r
    ELSE IF byte = "\r" THEN r
    ELSE IF byte = "\n"
         THEN [r EXCEPT !.line[r.length + 1] = NUL, !.has = TRUE, !.done = TRUE]
    ELSE IF line_is_full(r.length)
         THEN [r EXCEPT !.overflow = (r.overflow + 1) % 256, !.length = 0,
                        !.has = FALSE, !.drop = TRUE]
    ELSE [r EXCEPT !.line[r.length + 1] = byte, !.length = r.length + 1]

\* LineReceiver::poll: "while (m_stream.read_byte(byte))", up to the return
RECURSIVE poll_loop(_)
poll_loop(r) ==
    IF r.done \/ r.stream = <<>> THEN r
    ELSE poll_loop([poll_byte(r, Head(r.stream)) EXCEPT
                       !.stream = Tail(r.stream),
                       !.read = Append(r.read, Head(r.stream))])

\* line(): the C string in m_line
line == SubSeq(m_line, 1,
               CHOOSE n \in 0..max_line_length :
                   /\ n = max_line_length \/ m_line[n + 1] = NUL
                   /\ \A i \in 1..n : m_line[i] # NUL)

\* the transport receives one byte
MaxLineBytes == 7
stream_receive(byte) ==
    /\ Len(h_line_read) + Len(m_stream) < MaxLineBytes
    /\ m_stream' = Append(m_stream, byte)
    /\ UNCHANGED <<callVars, replyVars, capVars, readVars, modVars,
                   globalVars, negVars, winCfgVars, winHwVars, trigVars,
                   lastVars, ringVars, tickVars, histVars, stream, window_pc,
                   m_line, m_line_length, m_has_line, m_drop_until_eol,
                   m_overflow_count, poll_result, h_line_read, h_lines>>

\* LineReceiver::poll
poll ==
    /\ IF m_has_line
       THEN /\ poll_result' = TRUE
            /\ UNCHANGED <<m_stream, m_line, m_line_length, m_has_line,
                           m_drop_until_eol, m_overflow_count, h_line_read,
                           h_lines>>
       ELSE LET r == poll_loop([line |-> m_line, length |-> m_line_length,
                                has |-> m_has_line, drop |-> m_drop_until_eol,
                                overflow |-> m_overflow_count, done |-> FALSE,
                                stream |-> m_stream, read |-> h_line_read])
            IN /\ m_stream' = r.stream
               /\ m_line' = r.line
               /\ m_line_length' = r.length
               /\ m_has_line' = r.has
               /\ m_drop_until_eol' = r.drop
               /\ m_overflow_count' = r.overflow
               /\ poll_result' = r.done
               /\ h_line_read' = r.read
               /\ h_lines' = IF r.done
                             THEN Append(h_lines, SubSeq(r.line, 1, r.length))
                             ELSE h_lines
    /\ UNCHANGED <<callVars, replyVars, capVars, readVars, modVars,
                   globalVars, negVars, winCfgVars, winHwVars, trigVars,
                   lastVars, ringVars, tickVars, histVars, stream, window_pc>>

\* LineReceiver::consume_line, called on the line poll() has returned
consume_line ==
    /\ m_has_line
    /\ m_has_line' = FALSE
    /\ m_line_length' = 0
    /\ UNCHANGED <<callVars, replyVars, capVars, readVars, modVars,
                   globalVars, negVars, winCfgVars, winHwVars, trigVars,
                   lastVars, ringVars, tickVars, histVars, stream, window_pc,
                   m_stream, m_line, m_drop_until_eol, m_overflow_count,
                   poll_result, h_line_read, h_lines>>

NextLine ==
    \/ \E byte \in LineBytes : stream_receive(byte)
    \/ poll
    \/ consume_line

SpecLine == Init /\ [][NextLine]_vars

-----------------------------------------------------------------------------
(* Properties *)

\* the record most recently put into meas_buffer
Newest == data[(m_head - 1) % ring_size]

\* any sample-ready interrupt
AnySampleReady == \E adc_result \in Samples : ADC0_RESRDY(adc_result)

\* every byte of RAM the control loop can read (hardware registers, the
\* reply stream and history variables excluded)
Memory == <<globalVars, msb, tcb3_cmp, tcb3_reload, period_m, g_selected_window,
            trigVars, lastVars, ringVars, tickVars>>

\* C1: starting from CLEAN, the events [sample s1, boundary, sample s2] with
\* nothing in between make status RESULT_AVAIL after the third event and not
\* before, and the stored result is s2 - s1.
C1_SampleBoundarySample ==
    /\ Kinds(h_events) \in {<<"adc">>, <<"adc", "win">>} => status # RESULT_AVAIL
    /\ Kinds(h_events) = <<"adc", "win", "adc">> =>
          /\ status = RESULT_AVAIL
          /\ charge_difference = h_events[3].reading - h_events[1].reading

C3_PendingResultKept ==
    [][(status = RESULT_AVAIL /\ (WindowCounter_isr \/ AnySampleReady))
          => /\ status' = RESULT_AVAIL
             /\ UNCHANGED <<negative_counts, charge_difference,
                            previous_charge>>]_vars

\* C4: status changes only along CLEAN -> PREV_CHARGE (sample ready),
\* PREV_CHARGE -> NEGATIVE_COUNTS (window boundary), NEGATIVE_COUNTS ->
\* RESULT_AVAIL (sample ready), RESULT_AVAIL -> CLEAN (consumer) and any ->
\* CLEAN (reset); a window boundary sets NEGATIVE_COUNTS only from PREV_CHARGE.
C4_StatusEdges ==
    [][/\ status' # status =>
            \/ status = CLEAN /\ status' = PREV_CHARGE /\ AnySampleReady
            \/ status = PREV_CHARGE /\ status' = NEGATIVE_COUNTS
                   /\ WindowCounter_isr
            \/ status = NEGATIVE_COUNTS /\ status' = RESULT_AVAIL
                   /\ AnySampleReady
            \/ status = RESULT_AVAIL /\ status' = CLEAN
                   /\ capture_measurement_if_ready
            \/ status' = CLEAN
                   /\ (handle_trigger
                       \/ \E new_length \in WindowLengths :
                              SetWindowLength(new_length))
       /\ (WindowCounter_isr /\ status' = NEGATIVE_COUNTS)
              => status = PREV_CHARGE]_vars

\* C5: a sample-ready interrupt in PREV_CHARGE or RESULT_AVAIL and a boundary
\* interrupt in NEGATIVE_COUNTS or RESULT_AVAIL increments a counter in memory
\* that the control loop can read; at the least, memory changes.
C5_UnexpectedEventCounted ==
    [][(\/ status \in {PREV_CHARGE, RESULT_AVAIL} /\ AnySampleReady
        \/ status \in {NEGATIVE_COUNTS, RESULT_AVAIL} /\ WindowCounter_isr)
          => Memory' # Memory]_vars

\* C6: after [sample, sample] with no boundary in between, the baseline is
\* still the first sample and status is still PREV_CHARGE.
C6_BaselineKept ==
    Kinds(h_events) = <<"adc", "adc">> =>
        /\ status = PREV_CHARGE
        /\ previous_charge = h_events[1].reading

\* two samples with different readings arrived without a boundary
C6_Witness ==
    /\ Kinds(h_events) = <<"adc", "adc">>
    /\ h_events[2].reading # h_events[1].reading
    /\ previous_charge = h_events[1].reading

\* C7: the count captured by the boundary handler is the number of gated
\* pulses since the previous boundary (compared on the 24 bits get_count
\* writes, with no overflow of the low word waiting to be served), because the
\* handler resets the negative counter at every boundary.
C7_CountPerWindow ==
    [][(WindowCounter_isr /\ ~TCB1_OVF)
          => negative_counts' % 16777216 = h_pulses]_vars

\* C8: a session armed with sample count N > 0 puts at most N records, is
\* still armed before the N-th, and after the N-th the trigger is disarmed and
\* both counters are stopped.
C8_ExactlyNThenStop ==
    h_armed_count > 0 =>
        /\ h_delivered <= h_armed_count
        /\ h_delivered < h_armed_count => g_trigger_armed
        /\ h_delivered = h_armed_count =>
              ~g_trigger_armed /\ ~TCB1_ENABLE /\ ~TCB3_ENABLE

\* C9 as stated: each record's timestamp is greater than the timestamp of the
\* record put before it.
C9_TimestampsIncrease ==
    [][(m_head' # m_head /\ g_has_last_measurement)
          => U32Less(Newest.timestamp, data'[m_head].timestamp)]_vars

\* C9: no record's timestamp is smaller than the timestamp of the record put
\* before it.
C9_TimestampsNeverDecrease ==
    [][(m_head' # m_head /\ g_has_last_measurement)
          => ~U32Less(data'[m_head].timestamp, Newest.timestamp)]_vars

\* two records of one session put within the same millisecond, and a later
\* session's record put in a later millisecond
C9_Witness ==
    /\ h_delivered >= 2
    /\ Newest.timestamp = data[(m_head - 2) % ring_size].timestamp
    /\ U32Less(Newest.timestamp, millis)

\* C10: the buffered count never exceeds SCPI_BUFFER_LIMIT, the ring's own
\* overwrite-on-full path is never taken, and every put leaves the new record
\* in the buffer as its newest element.
C10_ClampBeforePut ==
    [][/\ size_no_atomic(meas_buffer)' <= SCPI_BUFFER_LIMIT
       /\ ~h_overwrote'
       /\ m_head' # m_head =>
             /\ size_no_atomic(meas_buffer)' >= 1
             /\ data'[(m_head' - 1) % ring_size] = g_last_measurement'
             /\ m_head' = advance_no_atomic(m_head)]_vars

\* the producer discarded the oldest record and left the buffer at its limit
C10_Witness ==
    /\ h_clamped
    /\ ~h_overwrote
    /\ size_no_atomic(meas_buffer) = SCPI_BUFFER_LIMIT
    /\ Newest = g_last_measurement

\* C11: a FETCH of more records than the buffer holds replies ERR:UNDERFLOW
\* and leaves the ring (data, head, tail), hence the buffered count, and the
\* last-measurement copy unchanged.
C11_UnderflowRejected ==
    [][\A requested \in 1..MaxRead :
          (handle_meas_read(requested)
              /\ requested > size_no_atomic(meas_buffer))
          => /\ stream' = "ERR:UNDERFLOW"
             /\ UNCHANGED <<ringVars, lastVars>>]_vars

\* a request was rejected while the buffer held a record
C11_Witness ==
    /\ stream = "ERR:UNDERFLOW"
    /\ size_no_atomic(meas_buffer) = 1
    /\ h_delivered = 1
    /\ ~h_clamped

C13_NotDivisibleRejected ==
    [][\A token \in WindowTokens :
          (handle_window(token) /\ TokenEvents[token] % (tcb2_cmp + 1) # 0)
          => /\ stream' = "ERR:ARG"
             /\ UNCHANGED <<winCfgVars, winHwVars, status>>]_vars

\* a request was rejected while a window set by an earlier request was active
\* and running
C13_Witness ==
    /\ stream = "ERR:ARG"
    /\ g_selected_window = WindowTable["0.02"]
    /\ period_m = TokenEvents["0.02"]
    /\ TCB3_ENABLE
    /\ h_inputs > 0

\* C14: with every low-word wraparound served by the overflow handler, the
\* value get_count returns to the boundary handler is exactly the number of
\* pulses counted since reset().
C14_CountIsExact ==
    [][(WindowCounter_isr /\ ~TCB1_OVF) => negative_counts' = h_count]_vars

\* the low 24 bits of a value returned by get_count: words[0] and bytes[2]
Low24(value) == (value + 16777216) % 16777216

\* C15: a low-word overflow occurring while the boundary handler reads the pulse
\* count never gives a torn value: the value read is the count after the
\* overflow or the count just before it, never the wrapped low word with the
\* high byte not yet incremented.
C15_NoTornRead ==
    [][WindowCounter_isr =>
          Low24(negative_counts') \in
              {h_count % 16777216, (h_count \div 65536) * 65536 - 1}]_vars

\* C16: the high byte counts the wraparounds of the low word, one increment per
\* wraparound: with a raised overflow counted as one wraparound not yet added,
\* high byte and low word give the pulses counted since reset().  Only the
\* overflow handler and reset() write the high byte, and the handler leaves
\* the overflow flag cleared.
C16_OncePerWraparound ==
    /\ [](msb * 65536 + TCB1_CNT + (IF TCB1_OVF THEN 65536 ELSE 0) = h_count)
    /\ [][msb' # msb => NegativeCounter_isr \/ handle_trigger]_vars
    /\ [][NegativeCounter_isr => ~TCB1_OVF']_vars

\* three wraparounds have been handled
C16_Witness ==
    /\ msb = 3
    /\ ~TCB1_OVF
    /\ h_count >= 3 * 65536

\* the steps that execute WindowCounter::reset: the trigger and an accepted
\* window-length command
ResetStep ==
    \/ handle_trigger
    \/ \E token \in WindowTokens :
          parse_window_plc_token(token).ok /\ handle_window(token)

\* C17: WindowCounter::reset is only executed while both cascade stages are
\* stopped: no step that reloads the counters starts with the stages enabled.
C17_ResetOnlyWhileStopped ==
    [][ResetStep => ~TCB3_ENABLE]_vars

StatusWriter ==
    \/ \E adc_result \in Samples : ADC0_RESRDY(adc_result)
    \/ WindowCounter_isr
    \/ capture_measurement_if_ready

\* the steps of the main loop that execute WindowCounter::reset
MainLoopReset ==
    \/ handle_trigger
    \/ \E new_length \in WindowLengths : SetWindowLength(new_length)

\* the consumer tests for RESULT_AVAIL, reads the result and writes CLEAN in
\* one step
ConsumerAtomic ==
    [][capture_measurement_if_ready =>
          /\ status = RESULT_AVAIL
          /\ status' = CLEAN
          /\ g_last_measurement'.value = negative_counts]_vars

\* C19: status is written only by the sample-ready handler, the boundary
\* handler and the consumer's read-and-clear, which is one critical section;
\* no other step of the main loop writes status.
C19_StatusWriters ==
    /\ [][status' # status => StatusWriter]_vars
    /\ ConsumerAtomic

\* C19, amended: WindowCounter::reset, called from the main loop by the
\* trigger and the window-length command, is a fourth writer of status.
C19_StatusWritersWithReset ==
    /\ [][status' # status => StatusWriter \/ MainLoopReset]_vars
    /\ [][MainLoopReset => status' = CLEAN]_vars
    /\ ConsumerAtomic

\* a reset has overwritten the status left by the boundary handler: no
\* measurement was ever taken by the consumer
C19_Witness ==
    /\ h_windows > 0
    /\ ~TCB3_CAPT
    /\ ~g_has_last_measurement
    /\ status = CLEAN
    /\ stream = "OK"

\* C20: from every status an explicit reset returns the state machine to
\* CLEAN, and the events sample, boundary, sample that follow it lead to
\* RESULT_AVAIL.
C20_ResetRecovers ==
    /\ [][MainLoopReset => status' = CLEAN /\ h_events' = <<>>]_vars
    /\ [](Kinds(h_events) = <<"adc", "win", "adc">> => status = RESULT_AVAIL)

\* sample, boundary, sample after a reset that found status stuck: a boundary
\* was handled before and the consumer never took a measurement
C20_Witness ==
    /\ Kinds(h_events) = <<"adc", "win", "adc">>
    /\ status = RESULT_AVAIL
    /\ h_windows = 2
    /\ ~TCB3_CAPT
    /\ ~g_has_last_measurement

\* I*D + K and J*D of the call in exact integer arithmetic: both are below
\* 2^48 and are held in 8 bytes
ExactNumer ==
    WordsAdd(WordsMulSmall(Words(pack_args.I), pack_args.D, 3),
             <<pack_args.K>>, 3)
ExactDenom == WordsMulSmall(Words(pack_args.J), pack_args.D, 3)

MaxU32 == [h |-> 65535, l |-> 65535]

\* C21: every call with I*D + K >= J*D in exact integer arithmetic returns
\* 0xFFFFFFFF.
C21_Saturation ==
    pack_done /\ WordsLeq(ExactDenom, ExactNumer) => pack_result = MaxU32

\* a saturating call whose exact J*D does not fit in 32 bits
C21_Witness ==
    /\ pack_done
    /\ WordsLeq(ExactDenom, ExactNumer)
    /\ ~WordsLeq(ExactDenom, <<65535, 65535>>)
    /\ pack_result = MaxU32

\* the documented preconditions of the call: 2048 < D < 4095, 0 <= K < D,
\* J <= 750000 and I*D + K < J*D
PackPre ==
    /\ 2048 < pack_args.D /\ pack_args.D < 4095
    /\ pack_args.K < pack_args.D
    /\ pack_args.J.h <= 11
    /\ pack_args.J.h * 65536 + pack_args.J.l <= 750000
    /\ ~WordsLeq(ExactDenom, ExactNumer)

\* X * J * D for the returned X, and 2^32 * (I*D + K), in 5 words
ResultTimesDenom == WordsMul(Words(pack_result), ExactDenom, 5)
ScaledNumer == WordsUp(ExactNumer, 2, 5)
\* 2 * |x - y| for 5-word x and y
TwiceDistance(x, y) ==
    IF WordsLeq(y, x) THEN WordsMulSmall(WordsSub(x, y, 5), 2, 6)
    ELSE WordsMulSmall(WordsSub(y, x, 5), 2, 6)
\* (numer << 32) + denom / 2 without wraparound
ExactScaled == WordsAdd(ScaledNumer, WordsHalf(ExactDenom), 5)

\* C22: under the preconditions the result X is 2^32 * (I*D + K) / (J*D)
\* rounded to nearest, |X*J*D - 2^32*(I*D + K)| <= J*D / 2; J*D fits in 32
\* bits, the 64-bit intermediate does not overflow, and X is its quotient by
\* J*D, which fits in 32 bits: X*J*D <= intermediate < X*J*D + J*D.
C22_RoundToNearest ==
    pack_done /\ PackPre =>
        \A denom \in {ExactDenom}, numer \in {ScaledNumer},
           product \in {ResultTimesDenom}, scaled \in {ExactScaled} :
            /\ WordsLeq(TwiceDistance(product, numer), denom)
            /\ WordsLeq(denom, <<65535, 65535>>)
            /\ WordsLeq(scaled, <<65535, 65535, 65535, 65535>>)
            /\ WordsLeq(product, scaled)
            /\ ~WordsLeq(WordsAdd(product, denom, 5), scaled)

\* a call under the preconditions whose quotient was rounded up, with the
\* largest J and D
C22_Witness ==
    /\ pack_done
    /\ PackPre
    /\ pack_args.J = U32(750000)
    /\ pack_args.D = 4094
    /\ ResultTimesDenom # ScaledNumer
    /\ WordsLeq(ScaledNumer, ResultTimesDenom)

\* a <= b for uint32_t values as [h, l]
U32Leq(a, b) == a = b \/ U32Less(a, b)

\* C23: the result does not decrease when I grows with K, J, D fixed, nor
\* when K grows with I, J, D fixed: for the next value of I or K and for every
\* larger value among the arguments explored, saturating calls included.
C23_Monotonic ==
    pack_done =>
        /\ \A I2 \in PackI \cup {U32Inc(pack_args.I)} :
              U32Less(pack_args.I, I2) =>
                  U32Leq(pack_result,
                         pack_q0_32(I2, pack_args.K, pack_args.J, pack_args.D))
        /\ \A K2 \in PackK \cup {pack_args.K + 1} :
              pack_args.K < K2 /\ K2 <= 65535 =>
                  U32Leq(pack_result,
                         pack_q0_32(pack_args.I, K2, pack_args.J, pack_args.D))

\* a call that does not saturate while the call with a larger I does, and
\* whose result is not zero
C23_Witness ==
    /\ pack_done
    /\ pack_result # MaxU32
    /\ pack_result # U32(0)
    /\ \E I2 \in PackI :
          /\ U32Less(pack_args.I, I2)
          /\ pack_q0_32(I2, pack_args.K, pack_args.J, pack_args.D) = MaxU32

\* the call pack_q0_32(I, K, J, D) has returned
PackCalled(I, K, J, D) ==
    /\ pack_done
    /\ pack_args = [I |-> U32(I), K |-> K, J |-> U32(J), D |-> D]

\* C24 as stated: pack(I=999, K=2999, J=1000, D=3000) returns a value within
\* 1 LSB of 0xFFFFFFFF.
C24_NearUnityWithinOneLSB ==
    PackCalled(999, 2999, 1000, 3000) =>
        pack_result \in {[h |-> 65535, l |-> 65534], [h |-> 65535, l |-> 65535]}

\* C24 amended: pack(I=999, K=2999, J=1000, D=3000) returns 0xFFFFFA68, the
\* Q0.32 value nearest to 2999999/3000000, which is 1431 LSB below 0xFFFFFFFF;
\* the call does not saturate.
C24_NearUnityValue ==
    PackCalled(999, 2999, 1000, 3000) =>
        /\ pack_result = [h |-> 65535, l |-> 64104]
        /\ pack_result.l + 1431 = 65535
        /\ ~WordsLeq(ExactDenom, ExactNumer)

C24_Witness ==
    PackCalled(999, 2999, 1000, 3000)

\* C25 as stated: pack(I=500, K=1500, J=1000, D=3000) returns a value within
\* 1 LSB of 0x80000000.
C25_OneHalfWithinOneLSB ==
    PackCalled(500, 1500, 1000, 3000) =>
        pack_result \in {[h |-> 32767, l |-> 65535], [h |-> 32768, l |-> 0],
                         [h |-> 32768, l |-> 1]}

\* C25 amended: pack(I=500, K=1500, J=1000, D=3000) returns 0x8020C49C, the
\* Q0.32 value nearest to 1501500/3000000 = 0.5005; the value 0x80000000 is
\* returned for the same I, J, D with K = 0.
C25_OneHalfValue ==
    /\ PackCalled(500, 1500, 1000, 3000) =>
          pack_result = [h |-> 32800, l |-> 50332]
    /\ PackCalled(500, 0, 1000, 3000) =>
          pack_result = [h |-> 32768, l |-> 0]

C25_Witness ==
    PackCalled(500, 1500, 1000, 3000)

C26_ZeroExample ==
    PackCalled(0, 0, 1000, 3000) => pack_result = U32(0)

\* a call with I = 0 and K = 0 whose product J*D is a non-zero multiple of 2^32
C26_DenomWraps ==
    /\ pack_done /\ pack_args.I = U32(0) /\ pack_args.K = 0
    /\ ExactDenom # <<0, 0, 0>>
    /\ Cast(ExactDenom, 2) = <<0, 0>>

\* J * D < 2^32 for J < 2^31 and D < 2^16, computed on the 16-bit halves of J
FitsUint32(J, D) ==
    (J \div 65536) * D + ((J % 65536) * D) \div 65536 < 65536

\* J <= 750000 and denom = J * D fits in 32 bits for every calibrated D
PackPeriodPre(J) ==
    /\ J <= 750000
    /\ \A D \in CalibratedD : FitsUint32(J, D)

\* C27: the window configured at any time has period() <= 750000 and
\* period() * D fits in 32 bits for every calibrated D, with the grid
\* frequency divisor the firmware is built with and with the other one.
C27_PeriodWithinPrecondition ==
    /\ PackPeriodPre(period_m)
    /\ \A grid_freq \in {GridFrequency_FREQ_50HZ, GridFrequency_FREQ_60HZ} :
          PackPeriodPre(grid_freq * g_selected_window)

\* every window up to 100 power-line cycles satisfies the precondition
C27_UpTo100PLC ==
    g_selected_window <= 25000 =>
        /\ PackPeriodPre(period_m)
        /\ \A grid_freq \in {GridFrequency_FREQ_50HZ, GridFrequency_FREQ_60HZ} :
              PackPeriodPre(grid_freq * g_selected_window)

\* a conversion for the 200-cycle window whose denom has wrapped
C27_DenomWrapped ==
    /\ pack_done
    /\ pack_args.J = U32(1500000)
    /\ pack_args.D = 4094
    /\ ~WordsLeq(ExactDenom, <<65535, 65535>>)

\* C28: the pulses counted since the last reset of the negative counter never
\* exceed 2^24 - 1, the range of the low word and the high byte together, and
\* the overflow handler never finds the high byte at 255.
C28_CountWithinRange ==
    /\ h_count <= NegativeCounterRange
    /\ TCB1_OVF => msb < 255

\* the count of one window alone stays within the range
C28_WindowWithinRange ==
    h_pulses <= NegativeCounterRange

\* C29: after any sequence of put and get, the ring holds the elements of the
\* first-in first-out queue of ring_size - 1 places with drop-oldest, in the
\* same order; size() is their number and is at most ring_size - 1; get()
\* returns true and the oldest element when the queue has one, and false
\* otherwise; after put() the new element is the youngest one held.
C29_BoundedFifo ==
    /\ RingContents(meas_buffer) = h_fifo
    /\ size_no_atomic(meas_buffer) = Len(h_fifo)
    /\ size_no_atomic(meas_buffer) <= ring_size - 1
    /\ h_got.op = "get" =>
          /\ h_got.ok = h_got.want_ok
          /\ h_got.value = h_got.want
    /\ h_got.op = "put" =>
          /\ size_no_atomic(meas_buffer) > 0
          /\ data[(m_head - 1) % ring_size].timestamp = U32(h_puts)

\* the ring was full, a put has dropped the oldest element, and the next get
\* has returned the second element put
C29_Witness ==
    /\ h_puts = ring_size
    /\ h_got.op = "get"
    /\ h_got.ok
    /\ h_got.value.timestamp = U32(2)
    /\ Len(h_fifo) = ring_size - 2

\* C30: counted from the start, millis() has advanced by 125 after every 128
\* pit() calls (3 ticks of every 128 add nothing), hence by 1000 after every
\* 1024 calls, and no pit() call makes millis() smaller.
C30_ThousandPerSecond ==
    /\ [](m_ticksL % 128 = 0 => millis = U32(125 * (m_ticksL \div 128)))
    /\ [](m_ticksL % 1024 = 0 => millis = U32(1000 * (m_ticksL \div 1024)))
    /\ [][~U32Less(m_millis', m_millis)]_vars

\* what pit() does: millis() advances at every tick but those at positions 42
\* and 85 of each 128 and the one that completes a second, 1007 per second
C30_MillisPerSecond ==
    /\ m_ticksL % 1024 = 0 => millis = U32(1007 * (m_ticksL \div 1024))
    /\ m_ticksL = 128 => millis = U32(126)

\* C31: ticks() counts the calls of pit(): it is 0 after init(), and every call
\* of pit() adds exactly one to it modulo 2^32, the half that pit() increments
\* being the low half of the 32-bit value.
C31_TicksCountsCalls ==
    /\ (m_ticksL = 0 /\ m_ticksH = 0 => ticks = U32(0))
    /\ [][ticks' = U32Inc(ticks)]_vars

\* what the code does: after n < 65536 calls of pit() the value is 65536 * n
C31_TicksTimes65536 == m_ticksH = 0 => ticks = [h |-> m_ticksL, l |-> 0]

\* C32: after setup_modN(N) and after every reload_modN(), the overflow of the
\* high stage is raised when exactly N events have been counted, not before
\* and not later, for every N from 1 to 2^32 - 1 and in every window.
C32_FiresAfterExactlyN ==
    /\ [](modN_period # U32(0) /\ ~TCB3_OVF => U32Less(h_mod_events, modN_period))
    /\ [](TCB3_OVF => h_mod_events = modN_period)

\* the third window of N = 65537 has ended: TCB2 starts at 0xFFFF and wraps on
\* the first event
C32_Witness ==
    /\ modN_period = [h |-> 1, l |-> 1]
    /\ h_mod_windows = 2
    /\ TCB3_OVF
    /\ h_mod_events = [h |-> 1, l |-> 1]

\* a <= x <= b for a counter that has gone from a to b without passing 2^32
U32Between(a, x, b) == U32Leq(a, x) /\ U32Leq(x, b)

\* C33: the value read_positive() returns is one the counter held between the
\* call and the return, also when TCB0 wraps into TCB1 during the read; and a
\* pass of the loop during which TCB0 did not wrap ends the call.
C33_ReadIsAValueHeld ==
    /\ [][read_pc = "msb2" /\ read_pc' = "idle" =>
             U32Between(h_read_start, read_value', positive)]_vars
    /\ [][read_pc = "msb2" /\ read_pc' # "msb2" /\ ~h_read_wrapped =>
             read_pc' = "idle"]_vars

\* a call has returned after a pass that a wrap of TCB0 made it repeat
C33_Witness ==
    /\ read_pc = "idle"
    /\ h_reads > 0
    /\ msb1 = msb2
    /\ msb2 = 1
    /\ h_read_start = [h |-> 0, l |-> 65535]
    /\ read_value.h = 1

\* the lines of a byte sequence: the text before each '\n', without '\r'
RECURSIVE LinesEnded(_, _)
LinesEnded(bytes, current) ==
    IF bytes = <<>> THEN <<>>
    ELSE IF Head(bytes) = "\n" THEN <<current>> \o LinesEnded(Tail(bytes), <<>>)
    ELSE IF Head(bytes) = "\r" THEN LinesEnded(Tail(bytes), current)
    ELSE LinesEnded(Tail(bytes), Append(current, Head(bytes)))

\* the text after the last '\n', without '\r'
RECURSIVE LineOpen(_, _)
LineOpen(bytes, current) ==
    IF bytes = <<>> THEN current
    ELSE IF Head(bytes) = "\n" THEN LineOpen(Tail(bytes), <<>>)
    ELSE IF Head(bytes) = "\r" THEN LineOpen(Tail(bytes), current)
    ELSE LineOpen(Tail(bytes), Append(current, Head(bytes)))

LineFits(text) == Len(text) <= max_line_length - 1

\* the lines that exceed the buffer among those received, the open one included
LinesTooLong(bytes) ==
    LET ended == LinesEnded(bytes, <<>>)
    IN Cardinality({i \in 1..Len(ended) : ~LineFits(ended[i])})
       + (IF LineFits(LineOpen(bytes, <<>>)) THEN 0 ELSE 1)

\* C34: of the bytes read so far, exactly the lines that fit the buffer have
\* been delivered, whole and in order, every line that exceeds it has been
\* counted once and delivered in no part, and a completed line stays available,
\* poll() returning true and reading nothing, until consume_line().
C34_OverlongLineDropped ==
    /\ [](h_lines = SelectSeq(LinesEnded(h_line_read, <<>>), LineFits))
    /\ [](m_overflow_count = LinesTooLong(h_line_read))
    /\ [](m_has_line => line = h_lines[Len(h_lines)]
                        /\ m_line_length = Len(line))
    /\ [][m_has_line /\ m_has_line' =>
             m_stream' = m_stream \/ h_line_read' = h_line_read]_vars
    /\ [][m_has_line /\ poll_result' # poll_result => poll_result']_vars
    /\ [][m_has_line /\ ~m_has_line' => m_line_length' = 0
                                       /\ h_line_read' = h_line_read]_vars

\* the line after an overlong one has been delivered
C34_Witness ==
    /\ h_line_read = <<"a", "b", "a", "b", "\n", "b", "\n">>
    /\ m_overflow_count = 1
    /\ m_has_line
    /\ line = <<"b">>
    /\ h_lines = <<<<"b">>>>

\* C35: a session armed for N > 0 samples eventually has delivered N
\* Measurements and has stopped.
C35_SessionCompletes ==
    [](g_trigger_armed /\ h_armed_count > 0 =>
           <>(~g_trigger_armed /\ h_delivered = h_armed_count))

\* C36: while the trigger is not armed, before the first trigger and after
\* an auto-stop, no Measurement is added to the buffer and a status
\* RESULT_AVAIL is not cleared, whatever interrupts are served.
C36_IdleConsumerDoesNothing ==
    /\ [][~g_trigger_armed /\ ~g_trigger_armed' =>
              /\ meas_buffer' = meas_buffer
              /\ h_delivered' = h_delivered
              /\ g_last_measurement' = g_last_measurement
              /\ (status = RESULT_AVAIL => status' = RESULT_AVAIL)]_vars
    /\ [](~g_trigger_armed => capture_pc = "idle")

\* a result has become available after the auto-stop of a session of one
\* sample: the boundary was served between the two steps of the consumer
C36_Witness ==
    /\ ~g_trigger_armed
    /\ h_armed_count = 1
    /\ h_delivered = 1
    /\ status = RESULT_AVAIL
    /\ capture_pc = "idle"

\* C37: no window boundary produces more than one Measurement: the boundary
\* handler has run between any two consecutive hand-offs to meas_buffer.
C37_OneMeasurementPerBoundary ==
    /\ [](h_handoffs <= 1)
    /\ [][m_head' # m_head => h_handoffs = 0 /\ h_handoffs' = 1]_vars

\* C37, amended: no window boundary produces more than one Measurement: the
\* boundary handler has run between the taking of any two consecutive
\* results, the taking being the consumer's read of RESULT_AVAIL and clearing
\* of status in its critical section; the put into meas_buffer follows it with
\* interrupts enabled, so that two puts can follow one boundary handler.
C37_OneResultPerBoundary ==
    /\ [](h_takes <= 1)
    /\ [][capture_pc = "idle" /\ capture_pc' = "put" =>
              h_takes = 0 /\ h_takes' = 1 /\ status = RESULT_AVAIL]_vars
    /\ [](h_handoffs <= h_takes + 1)

\* the second hand-off of a session has followed the first with no boundary
\* handler between the two puts: the boundary was served, and the sample that
\* completed its result arrived, between the first take and the first put
C37_Witness ==
    /\ h_delivered = 2
    /\ h_handoffs = 2
    /\ h_takes = 1
    /\ g_has_last_measurement
    /\ status = CLEAN

\* C38: the sample count a session runs with is the one set when it was
\* triggered: a session armed for N > 0 samples stops on its N-th Measurement
\* and not before, and a session armed as infinite does not stop, whatever
\* SAMPLE:COUNT commands arrive while it is armed.
C38_CountFixedAtTrigger ==
    /\ [](g_trigger_armed => h_armed_count = 0 \/ h_delivered < h_armed_count)
    /\ [][g_trigger_armed /\ ~g_trigger_armed' =>
              h_armed_count > 0 /\ h_delivered' = h_armed_count]_vars

\* C39: MEAS:LAST? replies NO_DATA until the first Measurement has been
\* captured, afterwards it replies the Measurement captured last, whatever
\* MEAS:READ? has drained in between, and it leaves meas_buffer as it is.
C39_LastIsLastCaptured ==
    [][handle_meas_last =>
          /\ meas_buffer' = meas_buffer
          /\ IF h_captured = <<>> THEN stream' = "ERR:NO_DATA"
             ELSE stream' = "DATA" /\ reply_measurement' = h_captured[1]]_vars

\* MEAS:LAST? leaves meas_buffer as it is, replies NO_DATA exactly until the
\* first capture, and replies the Measurement captured last whenever no
\* MEAS:READ? has read an element since that capture
C39_LastWithoutDrain ==
    [][handle_meas_last =>
          /\ meas_buffer' = meas_buffer
          /\ (h_captured = <<>>) = (stream' = "ERR:NO_DATA")
          /\ (h_captured # <<>> /\ g_last_measurement = h_captured[1]) =>
                 reply_measurement' = h_captured[1]]_vars

\* the denominator pack_q0_32 holds: the low 32 bits of J * D
DenomUint32 == Cast(ExactDenom, 2)

\* C40: for every input whose product J * D is 0 in 32 bits (J = 0, D = 0, or
\* a product that is a multiple of 2^32) pack_q0_32 returns 0xFFFFFFFF; the
\* division, which is not defined for such a denominator, is not reached.
C40_ZeroDenominatorSaturates ==
    pack_done /\ DenomUint32 = <<0, 0>> => pack_result = MaxU32

\* a call with I = 0 and K = 0 whose product J * D = 2^32 wraps to 0
C40_Witness ==
    /\ pack_done
    /\ pack_args.I = U32(0)
    /\ pack_args.K = 0
    /\ pack_args.J = U32(1048576)
    /\ pack_args.D = 4096
    /\ DenomUint32 = <<0, 0>>
    /\ pack_result = MaxU32

====
